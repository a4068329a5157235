--------------------------------- MODULE Serving ---------------------------------
(***************************************************************************)
(* The listener of the DNS service (src/src/dns.rs, serve and below): how   *)
(* UDP packets and TCP connections get one of the permits that bound the    *)
(* queries in flight, and give it back.  A query that comes to a local      *)
(* layer is a request of LocalDns; other layers end by their own deadlines  *)
(* (QueryLayers).                                                           *)
(*                                                                         *)
(* The semaphore hands a permit that comes back to the task that has waited *)
(* longest, so nobody overtakes and everybody is served; as with the lock   *)
(* of LocalDns, the order is left out and kept as strong fairness.          *)
(***************************************************************************)
EXTENDS LocalDns, FiniteSets

CONSTANTS
  Udp,      \* tasks that serve UDP packets, one after the other
  Tcp,      \* TCP connections
  Permits   \* MAX_IN_FLIGHT_QUERIES

Queries == Udp \cup Tcp
ASSUME QueriesAreRequests == Queries \subseteq Requests /\ Udp \cap Tcp = {}
ASSUME QueriesAreFinite   == IsFiniteSet(Queries)
ASSUME PermitsOK          == Permits \in Nat \ {0}

VARIABLES
  stage,   \* where each query is
  permits  \* how many are free

serving == <<stage, permits>>

Stages == {"idle", "waiting", "processing", "resolving", "processed", "writing", "closed"}
ServingTypeOK == stage \in [Queries -> Stages] /\ permits \in 0 .. Permits

\* Between packets a task does not exist, a connection is not open.
ServingInit ==
  /\ stage = [q \in Queries |-> IF q \in Udp THEN "idle" ELSE "closed"]
  /\ permits = Permits

GoesTo(q, place) == stage' = [stage EXCEPT ![q] = place]
InFlight == {q \in Queries : stage[q] \in {"processing", "resolving", "processed"}}

-----------------------------------------------------------------------------
(* Admission.                                                               *)

\* try_acquire_owned, which finds no permit while somebody waits for one.  A
\* packet that gets none is dropped, which changes nothing.
UdpArrives(u) ==
  /\ stage[u] = "idle"
  /\ permits > 0 /\ \A t \in Tcp : stage[t] # "waiting"
  /\ GoesTo(u, "processing")
  /\ permits' = permits - 1

TcpConnects(t) ==
  /\ stage[t] = "closed"
  /\ GoesTo(t, "idle")
  /\ UNCHANGED permits

\* The client has sent a whole packet; until then it holds no permit.
TcpReads(t) ==
  /\ stage[t] = "idle"
  /\ GoesTo(t, "waiting")
  /\ UNCHANGED permits

\* acquire_owned
TcpIsAdmitted(t) ==
  /\ stage[t] = "waiting"
  /\ permits > 0
  /\ GoesTo(t, "processing")
  /\ permits' = permits - 1

-----------------------------------------------------------------------------
(* process_packet.                                                          *)

\* A packet that is malformed or no query has no response: the task of a UDP
\* packet ends, a TCP connection is closed.
DiscardsPacket(q) ==
  /\ stage[q] = "processing"
  /\ GoesTo(q, IF q \in Udp THEN "idle" ELSE "closed")
  /\ permits' = permits + 1

\* The query comes to a local layer of its snapshot ...
ComesToLocal(q) ==
  /\ stage[q] = "processing"
  /\ hasLocal
  /\ GoesTo(q, "resolving")
  /\ Observes(q)
  /\ UNCHANGED permits
\* ... and leaves it when LocalDns has done with it.
LeavesLocal(q) ==
  /\ stage[q] = "resolving" /\ request[q] = "outside"
  /\ GoesTo(q, "processed")
  /\ UNCHANGED permits

\* The layers on its way, which end in time, have answered or refused it.
IsProcessed(q) ==
  /\ stage[q] = "processing"
  /\ GoesTo(q, "processed")
  /\ UNCHANGED permits

-----------------------------------------------------------------------------
(* Replies.                                                                 *)

\* send_to, and the end of the task.
UdpReplies(u) ==
  /\ stage[u] = "processed"
  /\ GoesTo(u, "idle")
  /\ permits' = permits + 1

\* Mutant: the permit is given back when the client has read the response.
TcpReleases_late(t) ==
  /\ stage[t] = "processed"
  /\ GoesTo(t, "writing")
  /\ UNCHANGED permits
\* drop(permit), before the response is written to a client that may never read.
TcpReleases(t) ==
  /\ stage[t] = "processed"
  /\ GoesTo(t, "writing")
  /\ permits' = permits + 1

TcpWrites(t) ==
  /\ stage[t] = "writing"
  /\ GoesTo(t, "idle")
  /\ UNCHANGED permits

\* The client closes the connection, or sends a length of zero.
TcpCloses(t) ==
  /\ stage[t] \in {"idle", "writing"}
  /\ GoesTo(t, "closed")
  /\ UNCHANGED permits

-----------------------------------------------------------------------------
(* The service: its listener and its local layer.                           *)

Processes(q) ==
  DiscardsPacket(q) \/ IsProcessed(q) \/ LeavesLocal(q)
Replies(q) ==
  \/ q \in Udp /\ UdpReplies(q)
  \/ q \in Tcp /\ TcpReleases(q)

ServingNext ==
  \/ \E u \in Udp : UdpArrives(u)
  \/ \E t \in Tcp : TcpConnects(t) \/ TcpReads(t) \/ TcpIsAdmitted(t)
                      \/ TcpWrites(t) \/ TcpCloses(t)
  \/ \E q \in Queries : Processes(q) \/ Replies(q)

\* What LocalDns does without a new request.
LocalGoesOn ==
  \/ SystemChanges \/ ReloadStores \/ ReloadNotifies
  \/ Looks \/ TimerFires \/ Listens
  \/ \E r \in Requests : Answers(r) \/ Fails(r) \/ TimesOut(r)
  \/ \E a \in Actors : Refresh(a)

service == <<stage, permits, localDns>>
ServiceNext ==
  \/ ServingNext /\ UNCHANGED localDns
  \/ \E q \in Queries : ComesToLocal(q)
  \/ LocalGoesOn /\ UNCHANGED serving

\* A task that can go on does, deadlines included, and the semaphore serves
\* whoever waits.  Clients need not send, read or close anything, and a packet
\* need not be a query.
ServiceFairness ==
  /\ \A q \in Queries : WF_service((Processes(q) \/ Replies(q)) /\ UNCHANGED localDns)
  /\ \A t \in Tcp : SF_service(TcpIsAdmitted(t) /\ UNCHANGED localDns)
  /\ \A r \in Requests : WF_service(TimesOut(r) /\ UNCHANGED serving)
  /\ WF_service(ReloadNotifies /\ UNCHANGED serving)
  /\ WF_service((Looks \/ TimerFires \/ Listens) /\ UNCHANGED serving)
  /\ SF_service(Locks(Loop) /\ UNCHANGED serving)
  /\ WF_service((TaskReads(Loop) \/ Stores(Loop) \/ FindsNone(Loop)) /\ UNCHANGED serving)

ServiceInit == LocalInit /\ ServingInit
ServiceSpec == ServiceInit /\ [][ServiceNext]_service /\ ServiceFairness

-----------------------------------------------------------------------------
(* Properties.                                                              *)

\* A query that a TCP client has sent is processed, however many UDP packets
\* come, whether or not other clients send, read or close what they began, and
\* even if the discovery of the system's resolvers never returns to whoever
\* waits for it.
TcpIsServed == \A t \in Tcp : stage[t] = "waiting" ~> stage[t] \in {"writing", "closed"}

\* No permit is lost and none is made up: however packets are discarded,
\* connections closed and discoveries given up, every permit is free or held by
\* one query in flight.
PermitsAreAccounted == permits + Cardinality(InFlight) = Permits
=============================================================================
