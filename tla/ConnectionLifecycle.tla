----------------------------- MODULE ConnectionLifecycle -----------------------------
(***************************************************************************)
(* What the passive TCP client promises the code that listens to it,        *)
(* whatever tasks and callbacks it uses inside: one connection at a time,   *)
(* the published states in one fixed order, and STOPPED reached - and kept  *)
(* - once the owner no longer wants a connection.                           *)
(*                                                                         *)
(* TcpClient implements this specification (its property Lifecycle).        *)
(***************************************************************************)
VARIABLES phase,      \* the last ConnectionState published
          wanted,     \* the owner started the client and has not stopped it
          connected   \* a TCP connection is open

vars == <<phase, wanted, connected>>

Phases == {"STOPPED", "CONNECTING", "CONNECTED", "CONNECTION_FAILED", "RECONNECTING"}

Init == /\ phase = "STOPPED"
        /\ wanted = FALSE
        /\ connected = FALSE

\* A new life of the client begins from a clean stop only.
Start == /\ ~wanted
         /\ phase = "STOPPED" /\ ~connected
         /\ wanted' = TRUE
         /\ UNCHANGED <<phase, connected>>

Attempt == /\ wanted /\ ~connected
           /\ phase \in {"STOPPED", "RECONNECTING"}
           /\ phase' = "CONNECTING"
           /\ UNCHANGED <<wanted, connected>>

Establish == /\ wanted /\ ~connected
             /\ phase = "CONNECTING"
             /\ phase' = "CONNECTED"
             /\ connected' = TRUE
             /\ UNCHANGED wanted

Fail == /\ wanted /\ ~connected
        /\ phase \in {"CONNECTING", "CONNECTED"}
        /\ phase' = "CONNECTION_FAILED"
        /\ UNCHANGED <<wanted, connected>>

Retry == /\ wanted /\ ~connected
         /\ phase = "CONNECTION_FAILED"
         /\ phase' = "RECONNECTING"
         /\ UNCHANGED <<wanted, connected>>

\* The connection goes away: the peer, the idle limit or a stop ended it.
Drop == /\ connected
        /\ connected' = FALSE
        /\ wanted' \in {wanted, FALSE}
        /\ UNCHANGED phase

Stop == /\ wanted
        /\ wanted' = FALSE
        /\ UNCHANGED <<phase, connected>>

Halt == /\ ~connected
        /\ phase' = "STOPPED"
        /\ wanted' = FALSE
        /\ UNCHANGED connected

Next == \/ Start \/ Attempt \/ Establish \/ Fail \/ Retry \/ Drop \/ Stop \/ Halt

\* What the client owes its owner: an attempt after every back-off, and an
\* end to every life it was told to end.
Spec == /\ Init /\ [][Next]_vars
        /\ WF_vars(Attempt) /\ WF_vars(Retry)
        /\ WF_vars(~wanted /\ (Drop \/ Halt))
=======================================================================================
