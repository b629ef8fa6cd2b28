---------------------------- MODULE MCCCClients ----------------------------
(* Two slots, three peers and a two-unit buffer for the safety runs; three     *)
(* slots, three peers and one script for the liveness run.                     *)
EXTENDS CCClients, TLC

Hosts == {"CGI"}
Modules == {"AV_MAIN"}

\* A host that registers, and whose request takes the whole buffer; a request the
\* buffer cannot hold; a module, whose header is malformed where JSON is expected; an
\* unknown name, and a command all the same.
Scripts == { <<"CGI", "Head", "Tail">>,
             <<"Head", "Mid", "Tail">>,
             <<"AV_MAIN", "Get">>,
             <<"Unknown", "Cmd">> }

\* Enough for two clients to come, send and close in turn while a third one waits.
ShortScript == { <<"CGI", "Cmd">> }

\* Descriptors are interchangeable: sound for the safety runs, which use it.
Symmetry == Permutations(Conn)
=============================================================================
