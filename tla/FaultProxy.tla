----------------------------- MODULE FaultProxy -----------------------------
(* faultproxy.Proxy, the UDP proxy between a client and the relay, with    *)
(* one client.  A packet is whatever the client sends into the proxy's     *)
(* socket (inbox); what reaches the relay is the sequence arrived.  The    *)
(* traffic counters of Stats decide nothing and are left out.              *)
EXTENDS Naturals, Sequences, FiniteSets

CONSTANTS Profiles,    \* the fault profiles in use, records as NoFaults
          MaxEvents,   \* bound on what happens from outside, all of it together
          NoPacket     \* a packet whose way leads nowhere

VARIABLES
  inbox,      \* packets at the proxy's socket
  pc,         \* of readLoop ("client") and of the upstream's goroutine ("reply")
  pkt, num,   \* the packet each of the two has read, and its number
  upstream,   \* the client's entry in clients: "none", "open", "closed", or
              \* "late", open and made after Close walked the table
  pktCount, profile, blackholed,
  hole,       \* blackholeLoop: "none", "clear", "dark" or "exited"
  held,       \* packets that wait for their timer
  slowed,     \* history: some packet was held
  arrived,    \* packets at the relay
  events,
  closer      \* Close: "no", "done", "socket", "wait" or "returned"

proxyVars == <<inbox, pc, pkt, num, upstream, pktCount, profile, blackholed, hole, held, slowed,
               arrived, events, closer>>

(* A profile, by what it may do to a packet: loss stands for PacketLoss    *)
(* and for a PacketHook, delay for Latency, Jitter and Reorder; a          *)
(* bandwidth limit only takes time.                                        *)
NoFaults ==
  [loss |-> FALSE, corrupt |-> FALSE, delay |-> FALSE, dropAfter |-> 0, from |-> 0, to |-> 0,
   blackhole |-> FALSE]

(* New: the profile of the options, blackholeLoop if it asks for one.      *)
ProxyInit ==
  /\ inbox = << >> /\ arrived = << >> /\ held = {} /\ slowed = FALSE
  /\ pc = [client |-> "read", reply |-> "none"]
  /\ pkt = [g \in {"client", "reply"} |-> NoPacket]
  /\ num = [g \in {"client", "reply"} |-> 0]
  /\ upstream = "none" /\ closer = "no"
  /\ pktCount = 0 /\ events = 0
  /\ profile \in Profiles /\ blackholed = FALSE
  /\ hole = IF profile.blackhole THEN "clear" ELSE "none"

(* n things happen from outside: packets sent, replies, calls of           *)
(* UpdateProfile and Close.                                                *)
Happens(n) == events + n <= MaxEvents /\ events' = events + n

(* The channel done is closed; so is the proxy's socket.                   *)
Done == closer # "no"
SocketClosed == closer \notin {"no", "done"}
UpstreamOpen == upstream \in {"open", "late"}

---------------------------------------------------------------------------
(* readLoop: a packet, or the error that ends the loop after Close.        *)
ReadFromUDP ==
  /\ pc["client"] = "read"
  /\ \/ /\ ~SocketClosed /\ inbox # << >>
        /\ pkt' = [pkt EXCEPT !["client"] = Head(inbox)]
        /\ inbox' = Tail(inbox)
        /\ pc' = [pc EXCEPT !["client"] = "got"]
     \/ /\ SocketClosed
        /\ pc' = [pc EXCEPT !["client"] = "exited"]
        /\ UNCHANGED <<pkt, inbox>>
  /\ UNCHANGED <<num, upstream, pktCount, profile, blackholed, hole, held, slowed, arrived, events, closer>>

(* The number a packet gets in forward.                                    *)
CountPacket(g) ==
  /\ pktCount' = pktCount + 1
  /\ num' = [num EXCEPT ![g] = pktCount + 1]

(* getOrCreateUpstream: the client's socket, made for the client's first   *)
(* packet together with the goroutine that reads it.  A dial that fails    *)
(* makes neither, and the packet has nowhere to go.                        *)
getOrCreateUpstream ==
  /\ pc["client"] = "got"
  /\ \/ /\ upstream # "none"
        /\ pc' = [pc EXCEPT !["client"] = "counted"]
        /\ UNCHANGED <<upstream, pkt>>
     \/ /\ upstream = "none"
        /\ upstream' = IF closer = "wait" THEN "late" ELSE "open"
        /\ pc' = [client |-> "counted", reply |-> "read"]
        /\ UNCHANGED pkt
     \/ /\ upstream = "none"
        /\ pkt' = [pkt EXCEPT !["client"] = NoPacket]
        /\ pc' = [pc EXCEPT !["client"] = "counted"]
        /\ UNCHANGED upstream
  /\ CountPacket("client")
  /\ UNCHANGED <<inbox, profile, blackholed, hole, held, slowed, arrived, events, closer>>

(* The goroutine of the upstream socket: a reply of the relay, or an error *)
(* (the relay cannot be reached, the socket is closed), which ends it.     *)
UpstreamRead ==
  /\ pc["reply"] = "read"
  /\ \/ /\ UpstreamOpen /\ Happens(1)
        /\ pc' = [pc EXCEPT !["reply"] = "counted"]
        /\ CountPacket("reply")
     \/ /\ (UpstreamOpen /\ Happens(1)) \/ (upstream = "closed" /\ UNCHANGED events)
        /\ pc' = [pc EXCEPT !["reply"] = "exited"]
        /\ UNCHANGED <<pktCount, num>>
  /\ UNCHANGED <<inbox, pkt, upstream, profile, blackholed, hole, held, slowed, arrived, closer>>

---------------------------------------------------------------------------
(* forward, up to the throttle: the drops by number, by blackhole and by   *)
(* chance.  A corrupted packet goes on, and QUIC at the far end does not   *)
(* take it.                                                                *)
Doomed(n) ==
  \/ profile.dropAfter > 0 /\ n > profile.dropAfter
  \/ profile.from > 0 /\ n >= profile.from /\ n < profile.to
  \/ blackholed

ApplyFaults(g) ==
  /\ pc[g] = "counted"
  /\ \/ /\ Doomed(num[g]) \/ profile.loss
        /\ pc' = [pc EXCEPT ![g] = "read"]
        /\ pkt' = [pkt EXCEPT ![g] = NoPacket]
     \/ /\ ~Doomed(num[g])
        /\ pc' = [pc EXCEPT ![g] = IF profile.delay THEN "delayed" ELSE "passed"]
        /\ \/ UNCHANGED pkt
           \/ profile.corrupt /\ pkt' = [pkt EXCEPT ![g] = NoPacket]
  /\ num' = [num EXCEPT ![g] = 0]
  /\ UNCHANGED <<inbox, upstream, pktCount, profile, blackholed, hole, held, slowed, arrived, events, closer>>

(* The write: what goes to the client, nowhere, or into a closed socket    *)
(* does not arrive.                                                        *)
send(p) == arrived' = IF p # NoPacket /\ UpstreamOpen THEN Append(arrived, p) ELSE arrived

(* The rest of forward, once the throttle lets the packet pass: written at *)
(* once, or, where the delay comes out above zero, by a goroutine with a   *)
(* timer.                                                                  *)
SendOrHold(g) ==
  /\ \/ pc[g] \in {"passed", "delayed"} /\ send(pkt[g]) /\ UNCHANGED <<held, slowed>>
     \/ /\ pc[g] = "delayed"
        /\ held' = held \union {pkt[g]}
        /\ slowed' = TRUE
        /\ UNCHANGED arrived
  /\ pc' = [pc EXCEPT ![g] = "read"]
  /\ pkt' = [pkt EXCEPT ![g] = NoPacket]
  /\ UNCHANGED <<inbox, num, upstream, pktCount, profile, blackholed, hole, events, closer>>

(* A timer fires, or its goroutine finds the proxy closed.                 *)
TimerFires ==
  \E p \in held :
    /\ held' = held \ {p}
    /\ send(p) \/ (Done /\ UNCHANGED arrived)
    /\ UNCHANGED <<inbox, pc, pkt, num, upstream, pktCount, profile, blackholed, hole, slowed, events, closer>>

(* blackholeLoop.                                                          *)
blackholeLoop ==
  /\ \/ hole = "clear" /\ hole' = "dark" /\ blackholed' = TRUE
     \/ hole = "dark" /\ hole' = "clear" /\ blackholed' = FALSE
     \/ Done /\ hole \in {"clear", "dark"} /\ hole' = "exited" /\ UNCHANGED blackholed
  /\ UNCHANGED <<inbox, pc, pkt, num, upstream, pktCount, profile, held, slowed, arrived, events, closer>>

(* UpdateProfile: the new profile alone; blackholeLoop goes on, or is not  *)
(* started.                                                                *)
UpdateProfile ==
  /\ Happens(1)
  /\ profile' \in Profiles
  /\ UNCHANGED <<inbox, pc, pkt, num, upstream, pktCount, blackholed, hole, held, slowed, arrived, closer>>

---------------------------------------------------------------------------
(* Close: done, the socket, the clients of the table as it is then, and    *)
(* the wait for the goroutines; the timers are not waited for.             *)
CloseBegins ==
  /\ closer = "no"
  /\ Happens(1)
  /\ closer' = "done"
  /\ UNCHANGED <<inbox, upstream>>

CloseSocket ==
  /\ closer = "done"
  /\ closer' = "socket"
  /\ inbox' = << >>
  /\ UNCHANGED upstream

(* Mutant: the clients' sockets stay open. *)
CloseClients_LeavesOpen ==
  /\ closer = "socket"
  /\ closer' = "wait"
  /\ UNCHANGED <<inbox, upstream>>

CloseClients ==
  /\ closer = "socket"
  /\ closer' = "wait"
  /\ upstream' = IF upstream = "open" THEN "closed" ELSE upstream
  /\ UNCHANGED inbox

CloseWaits ==
  /\ closer = "wait"
  /\ pc["client"] = "exited" /\ pc["reply"] \in {"none", "exited"} /\ hole \in {"none", "exited"}
  /\ closer' = "returned"
  /\ UNCHANGED <<inbox, upstream>>

RestOfProxy == <<pc, pkt, num, pktCount, profile, blackholed, hole, held, slowed, arrived>>

CloseGoesOn == (CloseSocket \/ CloseClients \/ CloseWaits) /\ UNCHANGED <<RestOfProxy, events>>

Forwards(g) == ApplyFaults(g) \/ SendOrHold(g)

ReadLoop == ReadFromUDP \/ getOrCreateUpstream \/ Forwards("client")
ReplyLoop == UpstreamRead \/ Forwards("reply")

ProxyNext ==
  \/ ReadLoop \/ ReplyLoop \/ TimerFires \/ blackholeLoop \/ UpdateProfile
  \/ CloseBegins /\ UNCHANGED RestOfProxy
  \/ CloseGoesOn

(* Goroutines run and timers fire.  A blackhole goroutine that finds done  *)
(* closed and its timer due may take either, but not the timer for ever.   *)
ProxyFairness ==
  /\ WF_proxyVars(ReadLoop) /\ WF_proxyVars(ReplyLoop) /\ WF_proxyVars(TimerFires)
  /\ WF_proxyVars(blackholeLoop) /\ SF_proxyVars(blackholeLoop /\ hole' = "exited")
  /\ WF_proxyVars(CloseGoesOn)

---------------------------------------------------------------------------
(* Proxy.Close returns: everything it waits for has been told to stop,     *)
(* unless readLoop put a client into the table after Close walked it.      *)
CloseReturns ==
  (closer = "done") ~> (closer = "returned" \/ upstream = "late")
=============================================================================
