----------------------------- MODULE MCLiveness -----------------------------
(* A TLC instance of the session daemon for what must happen in the end.    *)
(* Two kinds of company, each with the world that its questions need, bound *)
(* what one behaviour does: the program's own steps are those of Daemon.    *)
EXTENDS DaemonProperties

VARIABLE company
MCVars == <<vars, company>>

(* A typist is all that comes: it types, reads or not, is cut off, or the   *)
(* signal comes; the shell writes nothing and stays.                        *)
Typist == /\ \A c \in Conns \ {1} : conn'[c].pos = "free"
          /\ conn'[1].pos = "free" \/ conn'[1].own \in Clients
          /\ ptyOut' = 0 /\ (slave => slave')

(* Visitors come and go, and are probes too; nobody types or signals.       *)
Visitors == ~sigterm' /\ \A a \in Clients : cli'[a].next = 0

MCSpec ==
  /\ Init /\ company \in {"typist", "visitors"}
  /\ [][/\ Next /\ UNCHANGED company
        /\ company = "typist" => Typist
        /\ company = "visitors" => Visitors]_MCVars
  /\ DaemonFairness
=============================================================================
