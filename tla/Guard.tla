--------------------------------- MODULE Guard ---------------------------------
(***************************************************************************)
(* The tunnels of the network guard: a CONNECT request is dialled, taken    *)
(* over (hijacked), registered, greeted and copied in both directions until *)
(* an end hangs up or the guard closes.                                     *)
(*                                                                         *)
(* A tunnel has two connections, to the client (yt-dlp) and to the upstream *)
(* host, and two goroutines: the handler copies backward, from upstream to  *)
(* client, and starts the one that copies forward.                          *)
(***************************************************************************)
EXTENDS Naturals

CONSTANT Tunnels   \* the CONNECT requests made in the guard's life

Sides == {"client", "upstream"}
Directions == {"forward", "backward"}

Source(d) == IF d = "forward" THEN "client" ELSE "upstream"
Target(d) == IF d = "forward" THEN "upstream" ELSE "client"

VARIABLES
  closed,    \* Guard.closed
  serving,   \* g.server accepts requests
  tunnels,   \* Guard.tunnels, by tunnel and side
  open,      \* the connections not closed on our side
  peer,      \* what is known of the far sides: "talks", "silent" (sends no more), "gone"
  handler,   \* where connect stands, per tunnel
  copy       \* where the io.Copy of each direction stands

guardVars == <<closed, serving, tunnels, open, peer, handler, copy>>

--------------------------------------------------------------------------------
Registered == {"greeting", "copying", "draining", "closing"}

GuardTypeOK ==
  /\ closed \in BOOLEAN /\ serving \in BOOLEAN
  /\ tunnels \subseteq Tunnels \X Sides
  /\ open \subseteq Tunnels \X Sides
  /\ peer \in [Tunnels \X Sides -> {"talks", "silent", "gone"}]
  /\ handler \in [Tunnels -> {"none", "dialing", "dialed", "hijacked", "leaving", "left"}
                               \cup Registered]
  /\ copy \in [Tunnels \X Directions -> {"none", "reading", "writing", "ended", "done"}]

GuardInit ==
  /\ closed = FALSE
  /\ serving = TRUE
  /\ tunnels = {}
  /\ open = {}
  /\ peer = [e \in Tunnels \X Sides |-> "talks"]
  /\ handler = [t \in Tunnels |-> "none"]
  /\ copy = [c \in Tunnels \X Directions |-> "none"]

Close(ends) == open' = open \ ends
Both(t) == {t} \X Sides

--------------------------------------------------------------------------------
(* connect *)

(* An authenticated CONNECT request. *)
Accept(t) ==
  /\ serving /\ handler[t] = "none"
  /\ handler' = [handler EXCEPT ![t] = "dialing"]
  /\ UNCHANGED <<closed, serving, tunnels, open, peer, copy>>

(* dialPublic: a public address answers, or the policy, the ten seconds or the
   request's context end it. *)
Dial(t) ==
  /\ handler[t] = "dialing"
  /\ \/ /\ handler' = [handler EXCEPT ![t] = "dialed"]
        /\ open' = open \cup {<<t, "upstream">>}
     \/ handler' = [handler EXCEPT ![t] = "left"] /\ UNCHANGED open
  /\ UNCHANGED <<closed, serving, tunnels, peer, copy>>

Hijack(t) ==
  /\ handler[t] = "dialed"
  /\ \/ /\ handler' = [handler EXCEPT ![t] = "hijacked"]
        /\ open' = open \cup {<<t, "client">>}
     \/ handler' = [handler EXCEPT ![t] = "leaving"] /\ UNCHANGED open
  /\ UNCHANGED <<closed, serving, tunnels, peer, copy>>

RegisterAnyway(t) ==
  /\ handler[t] = "hijacked"
  /\ handler' = [handler EXCEPT ![t] = "greeting"]
  /\ tunnels' = tunnels \cup Both(t)
  /\ UNCHANGED <<closed, serving, open, peer, copy>>

(* Under g.mu: a closed guard registers no more tunnels. *)
Register(t) ==
  /\ handler[t] = "hijacked"
  /\ IF closed THEN handler' = [handler EXCEPT ![t] = "leaving"] /\ UNCHANGED tunnels
     ELSE /\ handler' = [handler EXCEPT ![t] = "greeting"]
          /\ tunnels' = tunnels \cup Both(t)
  /\ UNCHANGED <<closed, serving, open, peer, copy>>

(* Tell the client, then start both directions; a failed write leaves. *)
Greet(t) ==
  /\ handler[t] = "greeting"
  /\ IF <<t, "client">> \in open /\ peer[<<t, "client">>] # "gone"
       THEN /\ handler' = [handler EXCEPT ![t] = "copying"]
            /\ copy' = [c \in Tunnels \X Directions |-> IF c[1] = t THEN "reading" ELSE copy[c]]
       ELSE handler' = [handler EXCEPT ![t] = "closing"] /\ UNCHANGED copy
  /\ UNCHANGED <<closed, serving, tunnels, open, peer>>

(* The backward copy has ended: close the client, and wait for the forward one. *)
CloseClient(t) ==
  /\ handler[t] = "copying" /\ copy[<<t, "backward">>] = "ended"
  /\ Close({<<t, "client">>})
  /\ copy' = [copy EXCEPT ![<<t, "backward">>] = "done"]
  /\ handler' = [handler EXCEPT ![t] = "draining"]
  /\ UNCHANGED <<closed, serving, tunnels, peer>>

CloseUpstream(t) ==
  /\ copy[<<t, "forward">>] = "ended"
  /\ Close({<<t, "upstream">>})
  /\ copy' = [copy EXCEPT ![<<t, "forward">>] = "done"]
  /\ UNCHANGED <<closed, serving, tunnels, peer, handler>>

AwaitForward(t) ==
  /\ handler[t] = "draining" /\ copy[<<t, "forward">>] = "done"
  /\ handler' = [handler EXCEPT ![t] = "closing"]
  /\ UNCHANGED <<closed, serving, tunnels, open, peer, copy>>

(* The deferred calls: out of the table, then both connections. *)
Unregister(t) ==
  /\ handler[t] = "closing"
  /\ tunnels' = tunnels \ Both(t)
  /\ handler' = [handler EXCEPT ![t] = "leaving"]
  /\ UNCHANGED <<closed, serving, open, peer, copy>>

Leave(t) ==
  /\ handler[t] = "leaving"
  /\ Close(Both(t))
  /\ handler' = [handler EXCEPT ![t] = "left"]
  /\ UNCHANGED <<closed, serving, tunnels, peer, copy>>

--------------------------------------------------------------------------------
(* io.Copy *)

(* Data arrive, which the far side may send or not. *)
Receive(t, d) ==
  /\ copy[<<t, d>>] = "reading"
  /\ <<t, Source(d)>> \in open /\ peer[<<t, Source(d)>>] = "talks"
  /\ copy' = [copy EXCEPT ![<<t, d>>] = "writing"]
  /\ UNCHANGED <<closed, serving, tunnels, open, peer, handler>>

(* The far side takes them, in its own time. *)
Send(t, d) ==
  /\ copy[<<t, d>>] = "writing"
  /\ <<t, Target(d)>> \in open /\ peer[<<t, Target(d)>>] # "gone"
  /\ copy' = [copy EXCEPT ![<<t, d>>] = "reading"]
  /\ UNCHANGED <<closed, serving, tunnels, open, peer, handler>>

EndCopyAtDeadline(t, d) ==
  /\ copy[<<t, d>>] = "reading"
  /\ copy' = [copy EXCEPT ![<<t, d>>] = "ended"]
  /\ UNCHANGED <<closed, serving, tunnels, open, peer, handler>>

(* A read sees the end of the data or an error; a write sees an error. *)
EndCopy(t, d) ==
  /\ \/ /\ copy[<<t, d>>] = "reading"
        /\ <<t, Source(d)>> \notin open \/ peer[<<t, Source(d)>>] # "talks"
     \/ /\ copy[<<t, d>>] = "writing"
        /\ <<t, Target(d)>> \notin open \/ peer[<<t, Target(d)>>] = "gone"
  /\ copy' = [copy EXCEPT ![<<t, d>>] = "ended"]
  /\ UNCHANGED <<closed, serving, tunnels, open, peer, handler>>

(* A far side ends its data, or goes altogether: it exits, it is killed, the
   network fails. *)
HangUp(t, s) ==
  /\ handler[t] # "none" /\ peer[<<t, s>>] # "gone"
  /\ \E p \in {"silent", "gone"} \ {peer[<<t, s>>]} : peer' = [peer EXCEPT ![<<t, s>>] = p]
  /\ UNCHANGED <<closed, serving, tunnels, open, handler, copy>>

--------------------------------------------------------------------------------
(* Guard.Close *)

MarkClosed ==
  /\ ~closed
  /\ closed' = TRUE
  /\ UNCHANGED <<serving, tunnels, open, peer, handler, copy>>

CloseTunnels ==
  /\ ~closed
  /\ closed' = TRUE
  /\ Close(tunnels)
  /\ UNCHANGED <<serving, tunnels, peer, handler, copy>>

CloseServer ==
  /\ closed /\ serving
  /\ serving' = FALSE
  /\ UNCHANGED <<closed, tunnels, open, peer, handler, copy>>

--------------------------------------------------------------------------------
Handle(t) ==
  \/ Dial(t) \/ Hijack(t) \/ Register(t) \/ Greet(t)
  \/ CloseClient(t) \/ AwaitForward(t) \/ Unregister(t) \/ Leave(t)

GuardNext ==
  \/ \E t \in Tunnels :
       \/ Accept(t) \/ Handle(t) \/ CloseUpstream(t)
       \/ \E d \in Directions : Receive(t, d) \/ Send(t, d) \/ EndCopy(t, d)
       \/ \E s \in Sides : HangUp(t, s)
  \/ CloseTunnels
  \/ CloseServer

(* The goroutines go on, and Close finishes once begun; nobody has to connect,
   to send, to take what is sent, to hang up or to close the guard. *)
GuardFairness ==
  /\ \A t \in Tunnels :
       /\ WF_guardVars(Handle(t)) /\ WF_guardVars(CloseUpstream(t))
       /\ \A d \in Directions : WF_guardVars(EndCopy(t, d))
  /\ WF_guardVars(CloseServer)

GuardSpec == GuardInit /\ [][GuardNext]_guardVars /\ GuardFairness

--------------------------------------------------------------------------------
(* Properties *)

(* Once Guard.Close has released the lock, no tunnel carries data: those in the
   table are closed, and one that was being established finds the guard closed
   (guard.go:122-131, 192-199).  What has left has closed both connections,
   stopped both copies and is not in the table (181, 191, 200-211). *)
ClosedCarriesNothing == closed => \A e \in open : handler[e[1]] \notin Registered

LeftIsClean ==
  \A t \in Tunnels : handler[t] = "left" =>
    /\ Both(t) \cap (open \cup tunnels) = {}
    /\ \A d \in Directions : copy[<<t, d>>] \in {"none", "done"}

NothingOutlives == ClosedCarriesNothing /\ LeftIsClean

(* A tunnel between two sides that talk is not cut while the guard is open,
   whichever of its two goroutines runs first (guard.go:207-211). *)
LiveTunnelsStay ==
  \A t \in Tunnels :
    handler[t] \in {"copying", "draining"} /\ ~closed /\ (\A s \in Sides : peer[<<t, s>>] = "talks") =>
      /\ handler[t] = "copying"
      /\ Both(t) \subseteq open

(* Every handler returns: once the guard has closed, and once the client has gone,
   unless the upstream host neither takes what is left to send nor goes (211). *)
Blocked(t) ==
  /\ copy[<<t, "forward">>] = "writing"
  /\ <<t, "upstream">> \in open /\ peer[<<t, "upstream">>] # "gone"

TunnelsEnd ==
  \A t \in Tunnels :
    /\ closed /\ ~serving ~> handler[t] \in {"none", "left"}
    /\ \/ peer[<<t, "client">>] = "gone" ~> handler[t] = "left"
       \/ <>[]Blocked(t)
================================================================================
