---------------------------- MODULE MCTerminate ----------------------------
EXTENDS TerminateProperties
Start(child, one, two) == [p \in Pids |-> IF p = Child THEN child ELSE IF p = 1 THEN one ELSE two]
Shell == Proc("live", TRUE, TRUE, "handles")
Exited == Proc("zombie", TRUE, TRUE, "dies")
Vim == Proc("stopped", TRUE, FALSE, "handles")
Editor == Proc("live", TRUE, FALSE, "handles")
Nohup == Proc("live", TRUE, FALSE, "ignores")
MCStarts == {Start(Shell, Vim, Free), Start(Shell, Nohup, Proc("live", TRUE, TRUE, "dies")),
             Start(Exited, Vim, Nohup), Start(Exited, Editor, Free), Start(Exited, Proc("live", FALSE, FALSE, "dies"), Free),
             Start(Proc("stopped", TRUE, TRUE, "handles"), Free, Free)}
=============================================================================
