----------------------------- MODULE MCLaunch -----------------------------
EXTENDS Launch
Table(files) == [f \in Fds |-> IF f + 1 \in DOMAIN files /\ files[f + 1].file # "none"
                               THEN Slot(files[f + 1].file, files[f + 1].cloexec, "before")
                               ELSE Closed]
Through(file) == [file |-> file, cloexec |-> FALSE]   \* crosses an exec
Own(file) == [file |-> file, cloexec |-> TRUE]
None == Through("none")
Tty == <<Through("tty"), Through("tty"), Through("tty")>>
Null == <<Through("null"), Through("null"), Through("null")>>
Caller(who, files, stdio) == [who |-> who, table |-> Table(files), stdio |-> stdio]
MCCallers ==
  {Caller("pty", Null \o <<Own("listener")>>, <<"slave", "slave", "slave">>),
   Caller("relay", Tty \o <<Own("lock"), Through("stray")>>, <<"null", "null", "diagnostics">>),
   Caller("any", <<Through("b"), Through("c"), Through("a")>>, <<"a", "b", "c">>),
   Caller("any", <<Through("b"), None, None, Own("a")>>, <<"a", "a", "b">>),
   Caller("any", <<None, Own("a"), Own("c"), Own("b")>>, <<"a", "b", "c">>)}
Entry(key, value) == [key |-> key, value |-> value]
MCEnvironments ==
  {[block |-> <<Entry("TERM", "old"), Entry(NoKey, "odd"), Entry("TERM", "older"), Entry("PATH", "p")>>,
    settings |-> <<Entry("TERM", "xterm"), Entry("SOCK", "s"), Entry("TERM", "vt")>>],
   [block |-> <<Entry("PATH", "p"), Entry("PATH", "q")>>, settings |-> <<>>]}
=============================================================================
