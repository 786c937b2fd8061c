---------------------------- MODULE UdpSessions ----------------------------
(***************************************************************************)
(* One UDP listener of the stream manager: startUDP in                     *)
(* internal/engine/streams.go.  Its read loop opens a session with an      *)
(* upstream socket per client address and port, each session has a reader  *)
(* goroutine that sends the backend's answers back, a sweeper ends the     *)
(* sessions whose client has gone quiet, and stop ends them all.  The      *)
(* session table and the counts per source address are under one mutex;    *)
(* each step below is one section under it, or one blocking call.          *)
(***************************************************************************)
EXTENDS Naturals, FiniteSets

CONSTANTS
  Key,          \* client addresses with their ports
  Addr,         \* client addresses
  AddrOf,       \* AddrOf[k]: the address of k
  Refused,      \* the keys the source filter turns away
  Up,           \* upstream sockets (bound: how many sessions are ever opened)
  NoUp,
  MaxSessions,  \* udpMaxSessions
  MaxPerIP      \* udpMaxSessionsPerIP

ASSUME ConstantsAssumption ==
  /\ Key # {}
  /\ AddrOf \in [Key -> Addr]
  /\ Refused \subseteq Key
  /\ NoUp \notin Up
  /\ MaxSessions \in Nat
  /\ MaxPerIP \in Nat

VARIABLES
  listener,  \* "open", "closed" (stop has closed the socket) or "stopped"
  loop,      \* the read loop: "read", "got", "send" or "ended"
  packet,    \* the client whose packet the loop holds
  sending,   \* the socket the loop is about to write it to
  sessions,  \* the session table: the upstream socket of each key, or NoUp
  perIP,     \* open sessions per source address
  quiet,     \* keys whose session has seen no packet for udpSessionIdle
  keyOf,     \* the key each upstream socket was opened for
  reader,    \* each socket's reader goroutine: "none", "read", "failed", "ended"
  upOpen     \* upstream sockets that are not closed

loopVars == <<loop, packet, sending>>
tableVars == <<sessions, perIP, quiet>>
vars == <<listener, loopVars, tableVars, keyOf, reader, upOpen>>

Live == {k \in Key : sessions[k] # NoUp}

Init ==
  /\ listener = "open"
  /\ loop = "read"
  /\ packet = CHOOSE k \in Key : TRUE
  /\ sending = NoUp
  /\ sessions = [k \in Key |-> NoUp]
  /\ perIP = [a \in Addr |-> 0]
  /\ quiet = {}
  /\ keyOf = [u \in Up |-> CHOOSE k \in Key : TRUE]
  /\ reader = [u \in Up |-> "none"]
  /\ upOpen = {}

\* forget: the keys ks leave the table, and their addresses' counts.
Forget(ks) ==
  /\ sessions' = [k \in Key |-> IF k \in ks THEN NoUp ELSE sessions[k]]
  /\ perIP' = [a \in Addr |-> perIP[a] - Cardinality({k \in ks : AddrOf[k] = a})]
  /\ quiet' = quiet \ ks

-----------------------------------------------------------------------------
(* The read loop.                                                          *)

\* pc.ReadFrom returns a packet.
Receive(k) ==
  /\ loop = "read"
  /\ listener = "open"
  /\ packet' = k
  /\ loop' = "got"
  /\ UNCHANGED <<listener, sending, tableVars, keyOf, reader, upOpen>>

\* pc.ReadFrom fails, because the socket was closed or for another reason:
\* the loop ends.
ReceiveFails ==
  /\ loop = "read"
  /\ loop' = "ended"
  /\ UNCHANGED <<listener, packet, sending, tableVars, keyOf, reader, upOpen>>

\* A packet that is dropped: the source filter, the limits, or a failed dial.
Drop(dialOK) ==
  /\ loop = "got"
  /\ \/ packet \in Refused
     \/ /\ packet \notin Live
        /\ \/ Cardinality(Live) >= MaxSessions
           \/ perIP[AddrOf[packet]] >= MaxPerIP
           \/ ~dialOK
  /\ loop' = "read"
  /\ UNCHANGED <<listener, packet, sending, tableVars, keyOf, reader, upOpen>>

\* A packet of a known session: lastSeen is renewed, still under the lock.
Continue ==
  /\ loop = "got"
  /\ packet \notin Refused
  /\ packet \in Live
  /\ sending' = sessions[packet]
  /\ quiet' = quiet \ {packet}
  /\ loop' = "send"
  /\ UNCHANGED <<listener, packet, sessions, perIP, keyOf, reader, upOpen>>

\* A new session: the upstream socket is dialled under the lock.
Open_PerIPOffByOne(u) ==
  /\ loop = "got"
  /\ packet \notin Refused
  /\ packet \notin Live
  /\ Cardinality(Live) < MaxSessions
  /\ perIP[AddrOf[packet]] <= MaxPerIP
  /\ reader[u] = "none"
  /\ sessions' = [sessions EXCEPT ![packet] = u]
  /\ perIP' = [perIP EXCEPT ![AddrOf[packet]] = @ + 1]
  /\ keyOf' = [keyOf EXCEPT ![u] = packet]
  /\ reader' = [reader EXCEPT ![u] = "read"]
  /\ upOpen' = upOpen \cup {u}
  /\ sending' = u
  /\ loop' = "send"
  /\ UNCHANGED <<listener, packet, quiet>>

Open(u) ==
  /\ loop = "got"
  /\ packet \notin Refused
  /\ packet \notin Live
  /\ Cardinality(Live) < MaxSessions
  /\ perIP[AddrOf[packet]] < MaxPerIP
  /\ reader[u] = "none"
  /\ sessions' = [sessions EXCEPT ![packet] = u]
  /\ perIP' = [perIP EXCEPT ![AddrOf[packet]] = @ + 1]
  /\ keyOf' = [keyOf EXCEPT ![u] = packet]
  /\ reader' = [reader EXCEPT ![u] = "read"]
  /\ upOpen' = upOpen \cup {u}
  /\ sending' = u
  /\ loop' = "send"
  /\ UNCHANGED <<listener, packet, quiet>>

\* sess.conn.Write, after the unlock; on a socket that was closed in the
\* meantime the packet is lost.
Send ==
  /\ loop = "send"
  /\ sending' = NoUp
  /\ loop' = "read"
  /\ UNCHANGED <<listener, packet, tableVars, keyOf, reader, upOpen>>

-----------------------------------------------------------------------------
(* A session's reader, the sweeper, and the passing of time.               *)

\* up.Read fails: the backend was silent for udpSessionIdle or refused, or
\* the socket was closed.
UpstreamFails(u) ==
  /\ reader[u] = "read"
  /\ reader' = [reader EXCEPT ![u] = "failed"]
  /\ UNCHANGED <<listener, loopVars, tableVars, keyOf, upOpen>>

\* The reader forgets its session, if the table still holds it, and closes
\* its socket.
ReaderEnds_AnySession(u) ==
  /\ reader[u] = "failed"
  /\ reader' = [reader EXCEPT ![u] = "ended"]
  /\ upOpen' = upOpen \ {u}
  /\ IF keyOf[u] \in Live
       THEN Forget({keyOf[u]})
       ELSE UNCHANGED tableVars
  /\ UNCHANGED <<listener, loopVars, keyOf>>

ReaderEnds_Retries(u) ==
  /\ reader[u] = "failed"
  /\ reader' = [reader EXCEPT ![u] = "read"]
  /\ UNCHANGED <<listener, loopVars, tableVars, keyOf, upOpen>>

ReaderEnds(u) ==
  /\ reader[u] = "failed"
  /\ reader' = [reader EXCEPT ![u] = "ended"]
  /\ upOpen' = upOpen \ {u}
  /\ IF sessions[keyOf[u]] = u
       THEN Forget({keyOf[u]})
       ELSE UNCHANGED tableVars
  /\ UNCHANGED <<listener, loopVars, keyOf>>

\* udpSessionIdle passes without a packet from k.
GoQuiet(k) ==
  /\ k \in Live
  /\ k \notin quiet
  /\ quiet' = quiet \cup {k}
  /\ UNCHANGED <<listener, loopVars, sessions, perIP, keyOf, reader, upOpen>>

\* The sweeper's tick: the quiet sessions end.  It runs until it sees done.
Sweep ==
  /\ listener # "stopped"
  /\ quiet # {}
  /\ upOpen' = upOpen \ {sessions[k] : k \in quiet}
  /\ Forget(quiet)
  /\ UNCHANGED <<listener, loopVars, keyOf, reader>>

-----------------------------------------------------------------------------
(* stop(): the socket closes, then every session ends.                     *)

CloseListener ==
  /\ listener = "open"
  /\ listener' = "closed"
  /\ UNCHANGED <<loopVars, tableVars, keyOf, reader, upOpen>>

EndSessions ==
  /\ listener = "closed"
  /\ listener' = "stopped"
  /\ upOpen' = upOpen \ {sessions[k] : k \in Live}
  /\ Forget(Live)
  /\ UNCHANGED <<loopVars, keyOf, reader>>

Next ==
  \/ \E k \in Key : Receive(k) \/ GoQuiet(k)
  \/ ReceiveFails
  \/ \E ok \in BOOLEAN : Drop(ok)
  \/ Continue
  \/ \E u \in Up : Open(u) \/ UpstreamFails(u) \/ ReaderEnds(u)
  \/ Send
  \/ Sweep
  \/ CloseListener
  \/ EndSessions

Spec == Init /\ [][Next]_vars

\* A closed socket fails the reads on it, and the goroutines go on.
Fairness ==
  /\ WF_vars(EndSessions)
  /\ WF_vars(listener # "open" /\ ReceiveFails)
  /\ WF_vars(Drop(FALSE) \/ Continue \/ Send \/ \E u \in Up : Open(u))
  /\ \A u \in Up : WF_vars(u \notin upOpen /\ UpstreamFails(u))
  /\ \A u \in Up : WF_vars(ReaderEnds(u))

FairSpec == Spec /\ Fairness

-----------------------------------------------------------------------------
(* Properties.                                                             *)

(* Every variable has its type; forget never takes a count of an address   *)
(* below zero.                                                             *)
TypeOK ==
  /\ listener \in {"open", "closed", "stopped"}
  /\ loop \in {"read", "got", "send", "ended"}
  /\ packet \in Key
  /\ sending \in Up \cup {NoUp}
  /\ sessions \in [Key -> Up \cup {NoUp}]
  /\ perIP \in [Addr -> Nat]
  /\ quiet \subseteq Key
  /\ keyOf \in [Up -> Key]
  /\ reader \in [Up -> {"none", "read", "failed", "ended"}]
  /\ upOpen \subseteq Up

(* perIP counts exactly the sessions in the table, so that neither the     *)
(* sweeper, a reader nor stop frees a place twice or not at all, and both  *)
(* limits hold.                                                            *)
CountsExact ==
  /\ Cardinality(Live) <= MaxSessions
  /\ \A a \in Addr :
       /\ perIP[a] = Cardinality({k \in Live : AddrOf[k] = a})
       /\ perIP[a] <= MaxPerIP

(* No socket is lost when a client comes back on the same port while the  *)
(* reader of its former session is on its way out: a session in the table  *)
(* has its own reader, which will forget it when the backend goes quiet,   *)
(* and an open upstream socket that is not in the table is about to be     *)
(* closed by its reader.  stop leaves at most one session: that of a       *)
(* packet the read loop had received before the socket was closed.         *)
NoLostSocket ==
  /\ \A k \in Live : keyOf[sessions[k]] = k /\ reader[sessions[k]] \in {"read", "failed"}
  /\ \A u \in upOpen : sessions[keyOf[u]] = u \/ reader[u] = "failed"
  /\ listener = "stopped" => Cardinality(Live) <= 1

(* The sockets that stop closes and their readers end.                     *)
ClosedSessionsDrain ==
  \A u \in Up : (listener = "stopped" /\ u \notin upOpen /\ reader[u] = "read")
                  ~> reader[u] = "ended"

(* "the TCP connections and UDP sessions it admitted are closed with its   *)
(* old listener" (streams.md): a stopped listener has no session.          *)
SessionsEndWithListener == listener = "stopped" => Live = {}

=============================================================================
