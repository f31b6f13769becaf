----------------------------- MODULE Publisher -----------------------------
(***************************************************************************)
(* Publishing to the broker (src/publishers).  Every message opens a       *)
(* connection of its own, then a channel, and is sent without confirmation.*)
(* Nobody holds the promise, so its rejection is noticed by nobody, and    *)
(* nobody ever closes the connection.  The broker accepts a limited number *)
(* of connections.                                                         *)
(***************************************************************************)
EXTENDS Naturals, FiniteSets

CONSTANTS
  Message,         \* the messages that may be published, each once
  MaxConnections   \* connections that broker and process allow

VARIABLES
  conn,   \* conn[m]: what became of the publication of m
  open    \* the messages whose connection is open

ConnState == {"idle", "connecting", "opening", "sent", "rejected"}

TypeOK ==
  /\ conn \in [Message -> ConnState]
  /\ open \in SUBSET Message

Init ==
  /\ conn = [m \in Message |-> "idle"]
  /\ open = {}

\* publishData(): the connection is requested.
Start(m) ==
  /\ conn[m] = "idle"
  /\ conn' = [conn EXCEPT ![m] = "connecting"]
  /\ UNCHANGED open

Full == Cardinality(open) >= MaxConnections

Connected(m) ==
  /\ conn[m] = "connecting"
  /\ ~Full
  /\ conn' = [conn EXCEPT ![m] = "opening"]
  /\ open' = open \cup {m}

\* connectErr.
ConnectFails(m) ==
  /\ conn[m] = "connecting"
  /\ conn' = [conn EXCEPT ![m] = "rejected"]
  /\ UNCHANGED open

\* The channel is there: assertExchange, publish, resolve.
Opened(m) ==
  /\ conn[m] = "opening"
  /\ conn' = [conn EXCEPT ![m] = "sent"]
  /\ UNCHANGED open

\* createChErr: the connection stays open all the same.
ChannelFails(m) ==
  /\ conn[m] = "opening"
  /\ conn' = [conn EXCEPT ![m] = "rejected"]
  /\ UNCHANGED open

\* The process dies and its connections with it.
Reset ==
  /\ conn' = [m \in Message |-> IF conn[m] \in {"connecting", "opening"}
                                  THEN "rejected" ELSE conn[m]]
  /\ open' = {}
=============================================================================
