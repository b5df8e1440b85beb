----------------------- MODULE FramebufferCache_proofs -----------------------
(***************************************************************************)
(* Proofs about FramebufferCache: its types, that each framebuffer of the  *)
(* driver is in one list, that removals are not forgotten, that the        *)
(* destructor ends, and, when no two displays are of one type, that what   *)
(* is on a screen stays in the driver and that the manager implements      *)
(* FramebufferLifetime.                                                    *)
(***************************************************************************)
EXTENDS FramebufferCache, TLAPS

(* The displays of a device have types of their own. *)
OneDisplayPerType == \A d, e \in Display : TypeOf[d] = TypeOf[e] => d = e

(* Where the client is decides what it holds. *)
ClientOK ==
  /\ frame.at \in {"compose", "flip", "unplug"} => frame.display \in Display
  /\ frame.at \notin {"compose", "flip"} => staging = {}
  /\ frame.at \in {"compose", "flip"} =>
       frame.planes \subseteq staging \union newColour[frame.display]
  /\ frame.at = "compose" => ~frame.active
  /\ frame.at \in {"wake", "join", "closed"} => ~running
  /\ frame.at = "closed" => remover = "ended"

(* A stamp is only on a framebuffer that is tracked. *)
StampsOK == frame.at # "closed" => \A t \in Type : stamped[t] \subseteq staging \union cached

(* What a display scans out: the frame just committed, or what the last one *)
(* stamped and the colours it keeps.                                        *)
ScreensOK ==
  \A d \in Display \ exposed :
    IF frame.at = "flip" /\ frame.active /\ frame.display = d
    THEN screen[d] = frame.planes
    ELSE screen[d] \subseteq stamped[TypeOf[d]] \union oldColour[d]

(* The parts that the other proofs rest on. *)
Base == TypeOK /\ ClientOK /\ StampsOK /\ StopIsSeen

-----------------------------------------------------------------------------
(* What leaves the cache carries no stamp.                                 *)

(* fillCleanupBuffer() takes nothing that an active commit shows. *)
LEMMA SurplusFree ==
  \A s \in Surplus : s \subseteq cached /\ \A f \in s : CanRemove(f)
  BY DEF Surplus

(* removeBufferInternal() moves framebuffers without a stamp from the cache *)
(* to the cleanup list and marks others; it touches no staged one.          *)
LEMMA SweepEffect ==
  ASSUME NEW match, Sweep(match), info \in [staging \union cached -> Info],
         staging \intersect cached = {}
  PROVE  /\ info' \in [staging \union cached' -> Info]
         /\ \E out \in SUBSET cached :
              /\ cached' = cached \ out /\ cleanup' = cleanup \union out
              /\ \A f \in out : CanRemove(f)
         /\ \A f \in staging \union cached' :
              /\ info'[f].owner = info[f].owner /\ info'[f].buf = info[f].buf
              /\ info[f].pending => info'[f].pending
         /\ \A f \in cached' : f \in match => info'[f].pending
<1> DEFINE hit == {f \in cached : f \in match \/ info[f].pending}
           out == {f \in hit : CanRemove(f)}
<1>1. /\ cached' = cached \ out
      /\ cleanup' = cleanup \union out
      /\ info' = [f \in DOMAIN info \ out |->
                    IF f \in hit THEN [info[f] EXCEPT !.pending = TRUE] ELSE info[f]]
  BY DEF Sweep
<1>2. DOMAIN info \ out = staging \union cached'
  BY <1>1
<1>3. \A f \in staging \union cached' : info[f] \in Info
  BY <1>1
<1>4. \A f \in staging \union cached' :
        info'[f] = IF f \in hit THEN [info[f] EXCEPT !.pending = TRUE] ELSE info[f]
  BY <1>1, <1>2
<1>5. info' \in [staging \union cached' -> Info]
  <2>1. \A f \in staging \union cached' : info'[f] \in Info
    BY <1>3, <1>4 DEF Info
  <2> QED
    BY <1>1, <1>2, <2>1
<1>6. \A f \in staging \union cached' :
        /\ info'[f].owner = info[f].owner /\ info'[f].buf = info[f].buf
        /\ info[f].pending => info'[f].pending
        /\ f \in hit => info'[f].pending
  BY <1>3, <1>4 DEF Info
<1>7. \A f \in cached' : f \in match => f \in hit
  BY <1>1
<1>8. out \subseteq cached /\ \A f \in out : CanRemove(f)
  OBVIOUS
<1> QED
  BY <1>1, <1>5, <1>6, <1>7, <1>8

-----------------------------------------------------------------------------
(* Initially nothing is staged, cached or stamped. *)
LEMMA BaseInit == Init => Base
  BY DisplayTypes DEF Init, Base, TypeOK, ClientOK, StampsOK, StopIsSeen,
     Places, Rest

(* Every step keeps the types, the stamps and the client's place. *)
LEMMA BaseStep ==
  ASSUME Base, Listed, [Next]_vars
  PROVE  Base'
<1> USE DisplayTypes
<1>1. CASE \E d \in Display : BeginFrame(d)
  BY <1>1 DEF BeginFrame, Base, TypeOK, ClientOK, StampsOK, StopIsSeen, Info,
     Places, Idle, Rest, Goto, Attach, Composing, lists, threads, world,
     Signalled, Listed
<1>2. CASE \E d \in Display : ClearDisplay(d)
  BY <1>2 DEF ClearDisplay, Base, TypeOK, ClientOK, StampsOK, StopIsSeen, Info,
     Places, Idle, Rest, Goto, Attach, Composing, lists, threads, world,
     Signalled, Listed
<1>3. CASE \E d \in Display : RemoveDisplay(d)
  <2>1. PICK d \in Display : RemoveDisplay(d)
    BY <1>3
  <2>2. stamped' \in [Type -> SUBSET FB] /\ \A t \in Type : stamped'[t] \subseteq stamped[t]
    BY <2>1 DEF RemoveDisplay, Base, TypeOK
  <2> QED
    BY <2>1, <2>2 DEF RemoveDisplay, Listed, Base, TypeOK, ClientOK, StampsOK,
       StopIsSeen, Places, Idle, Rest, Goto, lists, threads, world
<1>4. CASE \E f \in FB : GetCached(f)
  BY <1>4 DEF GetCached, Base, TypeOK, ClientOK, StampsOK, StopIsSeen, Info,
     Places, Idle, Rest, Goto, Attach, Composing, lists, threads, world,
     Signalled, Listed
<1>5. CASE \E f \in FB : AddColour(f)
  BY <1>5 DEF AddColour, Base, TypeOK, ClientOK, StampsOK, StopIsSeen, Info,
     Places, Idle, Rest, Goto, Attach, Composing, lists, threads, world,
     Signalled, Listed
<1>6. CASE \E f \in FB, b \in Buf, o \in Owner : AddBuffer(f, b, o)
  BY <1>6 DEF AddBuffer, Base, TypeOK, ClientOK, StampsOK, StopIsSeen, Info,
     Places, Idle, Rest, Goto, Attach, Composing, lists, threads, world,
     Signalled, Listed
<1>7. CASE \E o \in Owner : CreateLayer(o)
  BY <1>7 DEF CreateLayer, Base, TypeOK, ClientOK, StampsOK, StopIsSeen, Info,
     Places, Idle, Rest, Goto, Attach, Composing, lists, threads, world,
     Signalled, Listed
<1>8. CASE \E o \in Owner : DestroyLayer(o)
  <2>1. PICK o \in Owner : DestroyLayer(o)
    BY <1>8 DEF DestroyLayer
  <2>2. Sweep({f \in cached : info[f].owner = o})
    BY <2>1 DEF DestroyLayer
  <2>3. info' \in [staging \union cached' -> Info]
    BY <2>2, SweepEffect DEF Base, TypeOK, Listed
  <2>4. PICK out \in SUBSET cached :
          /\ cached' = cached \ out /\ cleanup' = cleanup \union out
          /\ \A f \in out : CanRemove(f)
    BY <2>2, SweepEffect DEF Base, TypeOK, Listed
  <2> QED
    BY <2>1, <2>3, <2>4 DEF DestroyLayer, CanRemove, Listed, Base, TypeOK,
       ClientOK, StampsOK, StopIsSeen, Places, Idle, Rest, Goto, lists, threads,
       world
<1>9. CASE \E b \in Buf : FreeBuffer(b)
  <2>1. PICK b \in Buf : FreeBuffer(b)
    BY <1>9 DEF FreeBuffer
  <2>2. Sweep({f \in cached : info[f].buf = b})
    BY <2>1 DEF FreeBuffer
  <2>3. info' \in [staging \union cached' -> Info]
    BY <2>2, SweepEffect DEF Base, TypeOK, Listed
  <2>4. PICK out \in SUBSET cached :
          /\ cached' = cached \ out /\ cleanup' = cleanup \union out
          /\ \A f \in out : CanRemove(f)
    BY <2>2, SweepEffect DEF Base, TypeOK, Listed
  <2> QED
    BY <2>1, <2>3, <2>4 DEF FreeBuffer, CanRemove, Listed, Base, TypeOK,
       ClientOK, StampsOK, StopIsSeen, Places, Idle, Rest, Goto, lists, threads,
       world
<1>10. CASE Commit
  BY <1>10 DEF Commit, Base, TypeOK, ClientOK, StampsOK, StopIsSeen, Info,
     Places, Idle, Rest, Goto, Attach, Composing, lists, threads, world,
     Signalled, Listed
<1>11. CASE CommitFails
  BY <1>11 DEF CommitFails, Base, TypeOK, ClientOK, StampsOK, StopIsSeen, Info,
     Places, Idle, Rest, Goto, Attach, Composing, lists, threads, world,
     Signalled, Listed
<1>12. CASE ModeSetRefused
  BY <1>12 DEF ModeSetRefused, Base, TypeOK, ClientOK, StampsOK, StopIsSeen,
     Info, Places, Idle, Rest, Goto, Attach, Composing, lists, threads, world,
     Signalled, Listed
<1>13. CASE Flip
  BY <1>13 DEF Flip, Base, TypeOK, ClientOK, StampsOK, StopIsSeen, Info, Places,
     Idle, Rest, Goto, Attach, Composing, lists, threads, world, Signalled,
     Listed
<1>14. CASE Trim
  BY <1>14 DEF Trim, Base, TypeOK, ClientOK, StampsOK, StopIsSeen, Info, Places,
     Idle, Rest, Goto, Attach, Composing, lists, threads, world, Signalled,
     Listed
<1>15. CASE SweepDisplay
  <2>2. Sweep({f \in cached : info[f].type = TypeOf[frame.display]})
    BY <1>15 DEF SweepDisplay
  <2>3. info' \in [staging \union cached' -> Info]
    BY <2>2, SweepEffect DEF Base, TypeOK, Listed
  <2>4. PICK out \in SUBSET cached :
          /\ cached' = cached \ out /\ cleanup' = cleanup \union out
          /\ \A f \in out : CanRemove(f)
    BY <2>2, SweepEffect DEF Base, TypeOK, Listed
  <2> QED
    BY <1>15, <2>3, <2>4 DEF SweepDisplay, CanRemove, Listed, Base, TypeOK,
       ClientOK, StampsOK, StopIsSeen, Places, Idle, Rest, Goto, lists, threads,
       world
<1>16. CASE Notify
  BY <1>16 DEF Notify, Base, TypeOK, ClientOK, StampsOK, StopIsSeen, Info,
     Places, Idle, Rest, Goto, Attach, Composing, lists, threads, world,
     Signalled, Listed
<1>17. CASE Close
  BY <1>17 DEF Close, Base, TypeOK, ClientOK, StampsOK, StopIsSeen, Info,
     Places, Idle, Rest, Goto, Attach, Composing, lists, threads, world,
     Signalled, Listed
<1>18. CASE CloseNotify
  BY <1>18 DEF CloseNotify, Base, TypeOK, ClientOK, StampsOK, StopIsSeen, Info,
     Places, Idle, Rest, Goto, Attach, Composing, lists, threads, world,
     Signalled, Listed
<1>19. CASE Join
  BY <1>19 DEF Join, Base, TypeOK, ClientOK, StampsOK, StopIsSeen, Info, Places,
     Idle, Rest, Goto, Attach, Composing, lists, threads, world, Signalled,
     Listed
<1>20. CASE Wait
  BY <1>20 DEF Wait, Base, TypeOK, ClientOK, StampsOK, StopIsSeen, Info, Places,
     Idle, Rest, Goto, Attach, Composing, lists, threads, world, Signalled,
     Listed
<1>21. CASE WakeUp
  BY <1>21 DEF WakeUp, Base, TypeOK, ClientOK, StampsOK, StopIsSeen, Info,
     Places, Idle, Rest, Goto, Attach, Composing, lists, threads, world,
     Signalled, Listed
<1>22. CASE Collect
  <2>1. PICK s \in Surplus :
          /\ cached' = cached \ s
          /\ dying' = dying \union cleanup \union s
          /\ info' = [f \in DOMAIN info \ s |-> info[f]]
    BY <1>22 DEF Collect
  <2>2. s \subseteq cached /\ \A f \in s : CanRemove(f)
    BY SurplusFree
  <2>3. info' \in [staging \union cached' -> Info]
    BY <2>1, <2>2 DEF Base, TypeOK, Listed
  <2> QED
    BY <1>22, <2>1, <2>2, <2>3 DEF Collect, CanRemove, Listed, Base, TypeOK,
       ClientOK, StampsOK, StopIsSeen, Places, Idle, Rest, Goto, lists, threads,
       world
<1>23. CASE Clear
  BY <1>23 DEF Clear, Base, TypeOK, ClientOK, StampsOK, StopIsSeen, Info,
     Places, Idle, Rest, Goto, Attach, Composing, lists, threads, world,
     Signalled, Listed
<1>24. CASE UNCHANGED vars
  BY <1>24 DEF Base, TypeOK, ClientOK, StampsOK, StopIsSeen, Info, Places, Idle,
     Rest, Goto, Attach, Composing, lists, threads, world, Signalled, Listed,
     vars, lists, threads, world
<1>25. QED
  BY <1>1, <1>2, <1>3, <1>4, <1>5, <1>6, <1>7, <1>8, <1>9, <1>10, <1>11, <1>12,
     <1>13, <1>14, <1>15, <1>16, <1>17, <1>18, <1>19, <1>20, <1>21, <1>22,
     <1>23, <1>24 DEF Next, Client, Remover

-----------------------------------------------------------------------------
(* Initially every list is empty. *)
LEMMA ListedInit == Init => Listed
  BY DEF Init, Listed, Colours

(* Every step leaves each framebuffer in one list. *)
LEMMA ListedStep ==
  ASSUME Base, Listed, [Next]_vars
  PROVE  Listed'
<1>1. CASE \E d \in Display : BeginFrame(d)
  BY <1>1 DEF BeginFrame, Listed, Colours, lists, Attach, Base, TypeOK, Goto,
     Rest, Idle
<1>2. CASE \E d \in Display : ClearDisplay(d)
  BY <1>2 DEF ClearDisplay, Listed, Colours, lists, Attach, Base, TypeOK, Goto,
     Rest, Idle
<1>3. CASE \E d \in Display : RemoveDisplay(d)
  BY <1>3 DEF RemoveDisplay, Listed, Colours, lists, Attach, Base, TypeOK, Goto,
     Rest, Idle
<1>4. CASE \E f \in FB : GetCached(f)
  BY <1>4 DEF GetCached, Listed, Colours, lists, Attach, Base, TypeOK, Goto,
     Rest, Idle
<1>5. CASE \E f \in FB : AddColour(f)
  <2>1. PICK f \in FB : AddColour(f)
    BY <1>5
  <2> DEFINE d == frame.display
  <2>2. d \in Display
    BY <2>1 DEF AddColour, Composing, Base, ClientOK
  <2>3. \A e \in Display :
          newColour'[e] = IF e = d THEN newColour[e] \union {f} ELSE newColour[e]
    BY <2>1, <2>2 DEF AddColour, Base, TypeOK
  <2>4. UNCHANGED <<staging, cached, cleanup, dying, oldColour>>
    BY <2>1 DEF AddColour
  <2>5. f \notin kernel /\ kernel' = kernel \union {f}
    BY <2>1 DEF AddColour
  <2>6. f \notin staging \union cached \union cleanup \union dying \union Colours
    BY <2>5 DEF Listed
  <2>7. \A e \in Display : f \notin newColour[e] \union oldColour[e]
    BY <2>6 DEF Colours
  <2>8. Colours' = Colours \union {f}
    BY <2>2, <2>3, <2>4 DEF Colours
  <2>9. \A a, b \in Display :
          /\ newColour'[a] \intersect oldColour'[b] = {}
          /\ a # b => /\ newColour'[a] \intersect newColour'[b] = {}
                     /\ oldColour'[a] \intersect oldColour'[b] = {}
    <3> SUFFICES ASSUME NEW a \in Display, NEW b \in Display
                 PROVE  /\ newColour'[a] \intersect oldColour'[b] = {}
                        /\ a # b => /\ newColour'[a] \intersect newColour'[b] = {}
                                   /\ oldColour'[a] \intersect oldColour'[b] = {}
      OBVIOUS
    <3>1. /\ newColour[a] \intersect oldColour[b] = {}
          /\ a # b => /\ newColour[a] \intersect newColour[b] = {}
                     /\ oldColour[a] \intersect oldColour[b] = {}
      BY DEF Listed
    <3>2. oldColour'[a] = oldColour[a] /\ oldColour'[b] = oldColour[b]
      BY <2>4
    <3>3. newColour'[a] \subseteq newColour[a] \union {f}
      BY <2>3
    <3>4. a # b => newColour'[a] = newColour[a] \/ newColour'[b] = newColour[b]
      BY <2>3
    <3>5. newColour'[b] \subseteq newColour[b] \union {f}
      BY <2>3
    <3> QED
      BY <3>1, <3>2, <3>3, <3>4, <3>5, <2>7
  <2> QED
    BY <2>4, <2>5, <2>6, <2>8, <2>9 DEF Listed
<1>6. CASE \E f \in FB, b \in Buf, o \in Owner : AddBuffer(f, b, o)
  BY <1>6 DEF AddBuffer, Listed, Colours, lists, Attach, Base, TypeOK, Goto,
     Rest, Idle
<1>7. CASE \E o \in Owner : CreateLayer(o)
  BY <1>7 DEF CreateLayer, Listed, Colours, lists, Attach, Base, TypeOK, Goto,
     Rest, Idle
<1>8. CASE \E o \in Owner : DestroyLayer(o)
  <2>1. PICK o \in Owner : DestroyLayer(o)
    BY <1>8 DEF DestroyLayer
  <2>2. PICK out \in SUBSET cached : cached' = cached \ out /\ cleanup' = cleanup \union out
    BY <2>1 DEF DestroyLayer, Sweep
  <2> QED
    BY <2>1, <2>2 DEF DestroyLayer, Listed, Colours, lists
<1>9. CASE \E b \in Buf : FreeBuffer(b)
  <2>1. PICK b \in Buf : FreeBuffer(b)
    BY <1>9 DEF FreeBuffer
  <2>2. PICK out \in SUBSET cached : cached' = cached \ out /\ cleanup' = cleanup \union out
    BY <2>1 DEF FreeBuffer, Sweep
  <2> QED
    BY <2>1, <2>2 DEF FreeBuffer, Listed, Colours, lists
<1>10. CASE Commit
  BY <1>10 DEF Commit, Listed, Colours, lists, Attach, Base, TypeOK, Goto, Rest,
     Idle
<1>11. CASE CommitFails
  BY <1>11 DEF CommitFails, Listed, Colours, lists, Attach, Base, TypeOK, Goto,
     Rest, Idle
<1>12. CASE ModeSetRefused
  BY <1>12 DEF ModeSetRefused, Listed, Colours, lists, Attach, Base, TypeOK,
     Goto, Rest, Idle
<1>13. CASE Flip
  <2> DEFINE d == frame.display
             gone == IF newColour[d] = {} THEN {}
                     ELSE IF frame.active THEN oldColour[d] ELSE newColour[d]
  <2>1. d \in Display
    BY <1>13 DEF Flip, Base, ClientOK
  <2>2. /\ kernel' = kernel \ gone
        /\ cached' = cached \union staging /\ staging' = {}
        /\ UNCHANGED <<cleanup, dying>>
    BY <1>13 DEF Flip
  <2>3. \A e \in Display : newColour'[e] = IF e = d THEN {} ELSE newColour[e]
    BY <1>13, <2>1 DEF Flip, Base, TypeOK
  <2>4. \A e \in Display :
          oldColour'[e] = IF e = d /\ frame.active /\ newColour[d] # {}
                          THEN newColour[e] ELSE oldColour[e]
    BY <1>13, <2>1 DEF Flip, Base, TypeOK
  <2>5. \A a, b \in Display :
          /\ newColour'[a] \intersect oldColour'[b] = {}
          /\ a # b => /\ newColour'[a] \intersect newColour'[b] = {}
                     /\ oldColour'[a] \intersect oldColour'[b] = {}
    BY <2>1, <2>3, <2>4 DEF Listed
  <2>6. Colours' = Colours \ gone
    <3>1. \A f \in FB : f \in Colours' => f \in Colours /\ f \notin gone
      BY <2>1, <2>3, <2>4 DEF Colours, Listed
    <3>2. \A f \in FB : f \in Colours /\ f \notin gone => f \in Colours'
      BY <2>1, <2>3, <2>4 DEF Colours
    <3> QED
      BY <3>1, <3>2 DEF Colours
  <2>7. gone \subseteq Colours
    BY <2>1 DEF Colours, Base, TypeOK
  <2> HIDE DEF gone
  <2> QED
    BY <2>2, <2>5, <2>6, <2>7 DEF Listed
<1>14. CASE Trim
  BY <1>14 DEF Trim, Listed, Colours, lists, Attach, Base, TypeOK, Goto, Rest,
     Idle
<1>15. CASE SweepDisplay
  <2>2. PICK out \in SUBSET cached : cached' = cached \ out /\ cleanup' = cleanup \union out
    BY <1>15 DEF SweepDisplay, Sweep
  <2> QED
    BY <1>15, <2>2 DEF SweepDisplay, Listed, Colours, lists
<1>16. CASE Notify
  BY <1>16 DEF Notify, Listed, Colours, lists, Attach, Base, TypeOK, Goto, Rest,
     Idle
<1>17. CASE Close
  BY <1>17 DEF Close, Listed, Colours, lists, Attach, Base, TypeOK, Goto, Rest,
     Idle
<1>18. CASE CloseNotify
  BY <1>18 DEF CloseNotify, Listed, Colours, lists, Attach, Base, TypeOK, Goto,
     Rest, Idle
<1>19. CASE Join
  BY <1>19 DEF Join, Listed, Colours, lists, Attach, Base, TypeOK, Goto, Rest,
     Idle
<1>20. CASE Wait
  BY <1>20 DEF Wait, Listed, Colours, lists, Attach, Base, TypeOK, Goto, Rest,
     Idle
<1>21. CASE WakeUp
  BY <1>21 DEF WakeUp, Listed, Colours, lists, Attach, Base, TypeOK, Goto, Rest,
     Idle
<1>22. CASE Collect
  <2>1. PICK s \in Surplus : cached' = cached \ s /\ dying' = dying \union cleanup \union s
    BY <1>22 DEF Collect
  <2>2. s \subseteq cached
    BY SurplusFree
  <2> QED
    BY <1>22, <2>1, <2>2 DEF Collect, Listed, Colours
<1>23. CASE Clear
  BY <1>23 DEF Clear, Listed, Colours, lists, Attach, Base, TypeOK, Goto, Rest,
     Idle
<1>24. CASE UNCHANGED vars
  BY <1>24 DEF Listed, Colours, lists, Attach, Base, TypeOK, Goto, Rest, Idle,
     vars, lists, threads, world
<1>25. QED
  BY <1>1, <1>2, <1>3, <1>4, <1>5, <1>6, <1>7, <1>8, <1>9, <1>10, <1>11, <1>12,
     <1>13, <1>14, <1>15, <1>16, <1>17, <1>18, <1>19, <1>20, <1>21, <1>22,
     <1>23, <1>24 DEF Next, Client, Remover

-----------------------------------------------------------------------------
(* Initially there is nothing to mark. *)
LEMMA OrphansInit == Init => OrphansMarked
  BY DEF Init, OrphansMarked

(* Every step leaves what should go marked, or lets it go. *)
LEMMA OrphansStep ==
  ASSUME Base, Listed, OrphansMarked, [Next]_vars
  PROVE  OrphansMarked'
<1>1. CASE \E d \in Display : BeginFrame(d)
  BY <1>1 DEF BeginFrame, OrphansMarked, lists, world, Base, TypeOK, ClientOK,
     Listed, Idle, Rest, Attach, Goto, Info
<1>2. CASE \E d \in Display : ClearDisplay(d)
  BY <1>2 DEF ClearDisplay, OrphansMarked, lists, world, Base, TypeOK, ClientOK,
     Listed, Idle, Rest, Attach, Goto, Info
<1>3. CASE \E d \in Display : RemoveDisplay(d)
  BY <1>3 DEF RemoveDisplay, OrphansMarked, lists, world, Base, TypeOK,
     ClientOK, Listed, Idle, Rest, Attach, Goto, Info
<1>4. CASE \E f \in FB : GetCached(f)
  BY <1>4 DEF GetCached, OrphansMarked, lists, world, Base, TypeOK, ClientOK,
     Listed, Idle, Rest, Attach, Goto, Info
<1>5. CASE \E f \in FB : AddColour(f)
  BY <1>5 DEF AddColour, OrphansMarked, lists, world, Base, TypeOK, ClientOK,
     Listed, Idle, Rest, Attach, Goto, Info
<1>6. CASE \E f \in FB, b \in Buf, o \in Owner : AddBuffer(f, b, o)
  BY <1>6 DEF AddBuffer, OrphansMarked, lists, world, Base, TypeOK, ClientOK,
     Listed, Idle, Rest, Attach, Goto, Info
<1>7. CASE \E o \in Owner : CreateLayer(o)
  BY <1>7 DEF CreateLayer, OrphansMarked, lists, world, Base, TypeOK, ClientOK,
     Listed, Idle, Rest, Attach, Goto, Info
<1>8. CASE \E o \in Owner : DestroyLayer(o)
  <2>1. PICK o \in Owner : DestroyLayer(o)
    BY <1>8 DEF DestroyLayer
  <2>2. Sweep({f \in cached : info[f].owner = o})
    BY <2>1 DEF DestroyLayer
  <2>3. /\ \E out \in SUBSET cached : cached' = cached \ out
        /\ \A f \in staging \union cached' :
             /\ info'[f].owner = info[f].owner /\ info'[f].buf = info[f].buf
             /\ info[f].pending => info'[f].pending
        /\ \A f \in cached' : f \in {g \in cached : info[g].owner = o} => info'[f].pending
    BY <2>2, SweepEffect DEF Base, TypeOK, Listed
  <2> QED
    BY <2>1, <2>3 DEF DestroyLayer, OrphansMarked, Base, ClientOK, Idle, Rest,
       world
<1>9. CASE \E b \in Buf : FreeBuffer(b)
  <2>1. PICK b \in Buf : FreeBuffer(b)
    BY <1>9 DEF FreeBuffer
  <2>2. Sweep({f \in cached : info[f].buf = b})
    BY <2>1 DEF FreeBuffer
  <2>3. /\ \E out \in SUBSET cached : cached' = cached \ out
        /\ \A f \in staging \union cached' :
             /\ info'[f].owner = info[f].owner /\ info'[f].buf = info[f].buf
             /\ info[f].pending => info'[f].pending
        /\ \A f \in cached' : f \in {g \in cached : info[g].buf = b} => info'[f].pending
    BY <2>2, SweepEffect DEF Base, TypeOK, Listed
  <2> QED
    BY <2>1, <2>3 DEF FreeBuffer, OrphansMarked, Base, ClientOK, Idle, Rest,
       world
<1>10. CASE Commit
  BY <1>10 DEF Commit, OrphansMarked, lists, world, Base, TypeOK, ClientOK,
     Listed, Idle, Rest, Attach, Goto, Info
<1>11. CASE CommitFails
  BY <1>11 DEF CommitFails, OrphansMarked, lists, world, Base, TypeOK, ClientOK,
     Listed, Idle, Rest, Attach, Goto, Info
<1>12. CASE ModeSetRefused
  BY <1>12 DEF ModeSetRefused, OrphansMarked, lists, world, Base, TypeOK,
     ClientOK, Listed, Idle, Rest, Attach, Goto, Info
<1>13. CASE Flip
  BY <1>13 DEF Flip, OrphansMarked, lists, world, Base, TypeOK, ClientOK,
     Listed, Idle, Rest, Attach, Goto, Info
<1>14. CASE Trim
  BY <1>14 DEF Trim, OrphansMarked, lists, world, Base, TypeOK, ClientOK,
     Listed, Idle, Rest, Attach, Goto, Info
<1>15. CASE SweepDisplay
  <2>2. Sweep({f \in cached : info[f].type = TypeOf[frame.display]})
    BY <1>15 DEF SweepDisplay
  <2>3. /\ \E out \in SUBSET cached : cached' = cached \ out
        /\ \A f \in staging \union cached' :
             /\ info'[f].owner = info[f].owner /\ info'[f].buf = info[f].buf
             /\ info[f].pending => info'[f].pending
        /\ \A f \in cached' : f \in {g \in cached : info[g].type = TypeOf[frame.display]} => info'[f].pending
    BY <2>2, SweepEffect DEF Base, TypeOK, Listed
  <2> QED
    BY <1>15, <2>3 DEF SweepDisplay, OrphansMarked, Base, ClientOK, Idle, Rest,
       world
<1>16. CASE Notify
  BY <1>16 DEF Notify, OrphansMarked, lists, world, Base, TypeOK, ClientOK,
     Listed, Idle, Rest, Attach, Goto, Info
<1>17. CASE Close
  BY <1>17 DEF Close, OrphansMarked, lists, world, Base, TypeOK, ClientOK,
     Listed, Idle, Rest, Attach, Goto, Info
<1>18. CASE CloseNotify
  BY <1>18 DEF CloseNotify, OrphansMarked, lists, world, Base, TypeOK, ClientOK,
     Listed, Idle, Rest, Attach, Goto, Info
<1>19. CASE Join
  BY <1>19 DEF Join, OrphansMarked, lists, world, Base, TypeOK, ClientOK,
     Listed, Idle, Rest, Attach, Goto, Info
<1>20. CASE Wait
  BY <1>20 DEF Wait, OrphansMarked, lists, world, Base, TypeOK, ClientOK,
     Listed, Idle, Rest, Attach, Goto, Info
<1>21. CASE WakeUp
  BY <1>21 DEF WakeUp, OrphansMarked, lists, world, Base, TypeOK, ClientOK,
     Listed, Idle, Rest, Attach, Goto, Info
<1>22. CASE Collect
  <2>1. PICK s \in Surplus : /\ cached' = cached \ s
                              /\ info' = [f \in DOMAIN info \ s |-> info[f]]
    BY <1>22 DEF Collect
  <2>2. \A f \in staging \union cached' : info'[f] = info[f]
    BY <2>1, SurplusFree DEF Base, TypeOK, Listed
  <2>3. staging' = staging /\ cached' \subseteq cached /\ UNCHANGED <<alive, freed>>
    BY <1>22, <2>1 DEF Collect, world
  <2> QED
    BY <2>2, <2>3 DEF OrphansMarked
<1>23. CASE Clear
  BY <1>23 DEF Clear, OrphansMarked, lists, world, Base, TypeOK, ClientOK,
     Listed, Idle, Rest, Attach, Goto, Info
<1>24. CASE UNCHANGED vars
  BY <1>24 DEF OrphansMarked, lists, world, Base, TypeOK, ClientOK, Listed,
     Idle, Rest, Attach, Goto, Info, vars, lists, threads, world
<1>25. QED
  BY <1>1, <1>2, <1>3, <1>4, <1>5, <1>6, <1>7, <1>8, <1>9, <1>10, <1>11, <1>12,
     <1>13, <1>14, <1>15, <1>16, <1>17, <1>18, <1>19, <1>20, <1>21, <1>22,
     <1>23, <1>24 DEF Next, Client, Remover

(* Initially the screens are empty. *)
LEMMA ScreensInit == Init => ScreensOK
  BY DEF Init, ScreensOK, Rest

(* Every step keeps what the screens show among the stamps and the colours. *)
LEMMA ScreensStep ==
  ASSUME OneDisplayPerType, Base, ScreensOK, [Next]_vars
  PROVE  ScreensOK'
<1> USE DisplayTypes
<1>1. CASE \E d \in Display : BeginFrame(d)
  BY <1>1 DEF BeginFrame, ScreensOK, lists, threads, world, Base, TypeOK,
     ClientOK, StampsOK, Idle, Rest, Attach, Goto, Composing
<1>2. CASE \E d \in Display : ClearDisplay(d)
  <2>1. PICK d \in Display : ClearDisplay(d)
    BY <1>2
  <2>2. \A e \in Display : screen'[e] \subseteq screen[e]
    BY <2>1 DEF ClearDisplay, Base, TypeOK
  <2> QED
    BY <2>1, <2>2 DEF ClearDisplay, ScreensOK, lists, world, Idle, Rest
<1>3. CASE \E d \in Display : RemoveDisplay(d)
  <2>1. PICK d \in Display : RemoveDisplay(d)
    BY <1>3
  <2>2. \A e \in Display \ exposed' : e # d /\ stamped'[TypeOf[e]] = stamped[TypeOf[e]]
    BY <2>1 DEF RemoveDisplay, OneDisplayPerType, Base, TypeOK
  <2> QED
    BY <2>1, <2>2 DEF RemoveDisplay, ScreensOK, lists, Idle, Rest
<1>4. CASE \E f \in FB : GetCached(f)
  BY <1>4 DEF GetCached, ScreensOK, lists, threads, world, Base, TypeOK,
     ClientOK, StampsOK, Idle, Rest, Attach, Goto, Composing
<1>5. CASE \E f \in FB : AddColour(f)
  BY <1>5 DEF AddColour, ScreensOK, lists, threads, world, Base, TypeOK,
     ClientOK, StampsOK, Idle, Rest, Attach, Goto, Composing
<1>6. CASE \E f \in FB, b \in Buf, o \in Owner : AddBuffer(f, b, o)
  BY <1>6 DEF AddBuffer, ScreensOK, lists, threads, world, Base, TypeOK,
     ClientOK, StampsOK, Idle, Rest, Attach, Goto, Composing
<1>7. CASE \E o \in Owner : CreateLayer(o)
  BY <1>7 DEF CreateLayer, ScreensOK, lists, threads, world, Base, TypeOK,
     ClientOK, StampsOK, Idle, Rest, Attach, Goto, Composing
<1>8. CASE \E o \in Owner : DestroyLayer(o)
  BY <1>8 DEF DestroyLayer, ScreensOK, lists, threads, world, Base, TypeOK,
     ClientOK, StampsOK, Idle, Rest, Attach, Goto, Composing
<1>9. CASE \E b \in Buf : FreeBuffer(b)
  BY <1>9 DEF FreeBuffer, ScreensOK, lists, threads, world, Base, TypeOK,
     ClientOK, StampsOK, Idle, Rest, Attach, Goto, Composing
<1>10. CASE Commit
  BY <1>10 DEF Commit, ScreensOK, lists, threads, world, Base, TypeOK, ClientOK,
     StampsOK, Idle, Rest, Attach, Goto, Composing
<1>11. CASE CommitFails
  BY <1>11 DEF CommitFails, ScreensOK, lists, threads, world, Base, TypeOK,
     ClientOK, StampsOK, Idle, Rest, Attach, Goto, Composing
<1>12. CASE ModeSetRefused
  BY <1>12 DEF ModeSetRefused, ScreensOK, lists, threads, world, Base, TypeOK,
     ClientOK, StampsOK, Idle, Rest, Attach, Goto, Composing
<1>13. CASE Flip
  <2> DEFINE d == frame.display
  <2>1. d \in Display /\ frame.planes \subseteq staging \union newColour[d]
    BY <1>13 DEF Flip, Base, ClientOK
  <2>2. frame'.at = "trim" /\ UNCHANGED <<screen, exposed>>
    BY <1>13 DEF Flip, Rest, world
  <2> SUFFICES ASSUME NEW e \in Display \ exposed
               PROVE  screen[e] \subseteq stamped'[TypeOf[e]] \union oldColour'[e]
    BY <2>2 DEF ScreensOK
  <2>3. CASE e = d /\ frame.active
    <3>1. screen[e] = frame.planes
      BY <1>13, <2>3 DEF ScreensOK, Flip
    <3>2. stamped'[TypeOf[e]] = staging
      BY <1>13, <2>3 DEF Flip, Base, TypeOK
    <3>3. newColour[d] \subseteq oldColour'[e]
      BY <1>13, <2>3 DEF Flip, Base, TypeOK
    <3> QED
      BY <2>1, <2>3, <3>1, <3>2, <3>3
  <2>4. CASE ~(e = d /\ frame.active)
    <3>1. screen[e] \subseteq stamped[TypeOf[e]] \union oldColour[e]
      BY <2>4 DEF ScreensOK
    <3>2. oldColour'[e] = oldColour[e]
      BY <1>13, <2>4 DEF Flip, Base, TypeOK
    <3>3. stamped'[TypeOf[e]] = stamped[TypeOf[e]]
      BY <1>13, <2>1, <2>4 DEF Flip, OneDisplayPerType, Base, TypeOK
    <3> QED
      BY <3>1, <3>2, <3>3
  <2> QED
    BY <2>3, <2>4
<1>14. CASE Trim
  BY <1>14 DEF Trim, ScreensOK, lists, threads, world, Base, TypeOK, ClientOK,
     StampsOK, Idle, Rest, Attach, Goto, Composing
<1>15. CASE SweepDisplay
  BY <1>15 DEF SweepDisplay, ScreensOK, lists, threads, world, Base, TypeOK,
     ClientOK, StampsOK, Idle, Rest, Attach, Goto, Composing
<1>16. CASE Notify
  BY <1>16 DEF Notify, ScreensOK, lists, threads, world, Base, TypeOK, ClientOK,
     StampsOK, Idle, Rest, Attach, Goto, Composing
<1>17. CASE Close
  BY <1>17 DEF Close, ScreensOK, lists, threads, world, Base, TypeOK, ClientOK,
     StampsOK, Idle, Rest, Attach, Goto, Composing
<1>18. CASE CloseNotify
  BY <1>18 DEF CloseNotify, ScreensOK, lists, threads, world, Base, TypeOK,
     ClientOK, StampsOK, Idle, Rest, Attach, Goto, Composing
<1>19. CASE Join
  BY <1>19 DEF Join, ScreensOK, lists, threads, world, Base, TypeOK, ClientOK,
     StampsOK, Idle, Rest, Attach, Goto, Composing
<1>20. CASE Wait
  BY <1>20 DEF Wait, ScreensOK, lists, threads, world, Base, TypeOK, ClientOK,
     StampsOK, Idle, Rest, Attach, Goto, Composing
<1>21. CASE WakeUp
  BY <1>21 DEF WakeUp, ScreensOK, lists, threads, world, Base, TypeOK, ClientOK,
     StampsOK, Idle, Rest, Attach, Goto, Composing
<1>22. CASE Collect
  BY <1>22 DEF Collect, ScreensOK, lists, threads, world, Base, TypeOK,
     ClientOK, StampsOK, Idle, Rest, Attach, Goto, Composing
<1>23. CASE Clear
  BY <1>23 DEF Clear, ScreensOK, lists, threads, world, Base, TypeOK, ClientOK,
     StampsOK, Idle, Rest, Attach, Goto, Composing
<1>24. CASE UNCHANGED vars
  BY <1>24 DEF ScreensOK, lists, threads, world, Base, TypeOK, ClientOK,
     StampsOK, Idle, Rest, Attach, Goto, Composing, vars, lists, threads, world
<1>25. QED
  BY <1>1, <1>2, <1>3, <1>4, <1>5, <1>6, <1>7, <1>8, <1>9, <1>10, <1>11, <1>12,
     <1>13, <1>14, <1>15, <1>16, <1>17, <1>18, <1>19, <1>20, <1>21, <1>22,
     <1>23, <1>24 DEF Next, Client, Remover

-----------------------------------------------------------------------------
(* The theorems.                                                           *)

(* All that holds of every state. *)
LEMMA Invariants == Spec => [](Base /\ Listed /\ OrphansMarked)
<1>1. Init => Base /\ Listed /\ OrphansMarked
  BY BaseInit, ListedInit, OrphansInit
<1>2. (Base /\ Listed /\ OrphansMarked) /\ [Next]_vars => (Base /\ Listed /\ OrphansMarked)'
  BY BaseStep, ListedStep, OrphansStep
<1> QED
  BY <1>1, <1>2, PTL DEF Spec

(* Every variable keeps its type, however the threads are interleaved. *)
THEOREM TypeCorrect == Spec => []TypeOK
<1>1. Base => TypeOK
  BY DEF Base
<1> QED
  BY Invariants, <1>1, PTL

(* Each framebuffer of the driver is in exactly one list: none is removed   *)
(* twice and none is forgotten by the splices, the removing thread or the   *)
(* displays' colours.                                                       *)
THEOREM EachInOneList == Spec => []Listed
  BY Invariants, PTL

(* A framebuffer whose layer or buffer is gone and which an active commit   *)
(* still shows stays marked until it is removed.                            *)
THEOREM RemovalsRemembered == Spec => []OrphansMarked
  BY Invariants, PTL

(* Once the destructor has signalled, the removing thread never waits. *)
THEOREM DestructorEnds == Spec => []StopIsSeen
<1>1. Base => StopIsSeen
  BY DEF Base
<1> QED
  BY Invariants, <1>1, PTL

(* With one display of each type, whatever a display scans out since its    *)
(* last commit is in the driver, for any number of displays, framebuffers   *)
(* and buffers and any limit of the cache.                                  *)
THEOREM ScreenKept ==
  ASSUME OneDisplayPerType
  PROVE  Spec => []OnScreenKept
<1>1. Init => ScreensOK
  BY ScreensInit
<1>2. ScreensOK /\ Base /\ [Next]_vars => ScreensOK'
  BY ScreensStep
<1>3. ScreensOK /\ Base /\ Listed => OnScreenKept
  BY DisplayTypes DEF ScreensOK, Base, TypeOK, ClientOK, StampsOK, Listed,
     Colours, OnScreenKept
<1> QED
  BY Invariants, <1>1, <1>2, <1>3, PTL DEF Spec

-----------------------------------------------------------------------------
(* The contract.                                                           *)

(* A step that leaves the driver, the marks and the screens alone is none   *)
(* of the contract's.                                                       *)
LEMMA Unpromised ==
  ASSUME UNCHANGED <<kernel, info, cleanup, dying, screen, exposed>>,
         (frame'.at = "closed") <=> (frame.at = "closed")
  PROVE  UNCHANGED Contract!vars
<1>1. \A f \in FB : StateOf(f)' = StateOf(f)
  BY DEF StateOf
<1> QED
  BY <1>1 DEF Contract!vars

(* removeBufferInternal() condemns what it takes out of the cache or marks, *)
(* and nothing that was condemned before is kept again.                     *)
LEMMA SweepCondemns ==
  ASSUME Base, Listed, NEW match, Sweep(match), UNCHANGED <<kernel, staging, dying>>
  PROVE  \E S \in SUBSET FB :
           /\ \A f \in S : StateOf(f) = "kept"
           /\ \A f \in FB : StateOf(f)' = IF f \in S THEN "condemned" ELSE StateOf(f)
<1> DEFINE hit == {f \in cached : f \in match \/ info[f].pending}
           out == {f \in hit : CanRemove(f)}
           S == {f \in hit : ~info[f].pending}
<1>1. /\ cached' = cached \ out
      /\ cleanup' = cleanup \union out
      /\ info' = [f \in DOMAIN info \ out |->
                    IF f \in hit THEN [info[f] EXCEPT !.pending = TRUE] ELSE info[f]]
  BY DEF Sweep
<1>2. /\ DOMAIN info = staging \union cached
      /\ \A f \in DOMAIN info : info[f] \in Info
  BY DEF Base, TypeOK
<1>3. /\ cached \subseteq kernel /\ cached \subseteq FB
      /\ cached \intersect (cleanup \union dying) = {}
  BY DEF Listed, Base, TypeOK
<1>4. S \in SUBSET FB
  BY <1>3
<1>5. \A f \in S : StateOf(f) = "kept"
  BY <1>2, <1>3 DEF StateOf
<1>6. DOMAIN info' = DOMAIN info \ out
  BY <1>1
<1>7. \A f \in DOMAIN info' : f \in hit => info'[f].pending
  BY <1>1, <1>2, <1>6 DEF Info
<1>8. \A f \in DOMAIN info' : f \notin hit => info'[f] = info[f]
  BY <1>1, <1>6
<1>9. \A f \in hit : StateOf(f)' = "condemned"
  <2> SUFFICES ASSUME NEW f \in hit
               PROVE  StateOf(f)' = "condemned"
    OBVIOUS
  <2>1. f \in kernel'
    BY <1>3
  <2>2. f \in out \/ f \in DOMAIN info'
    BY <1>2, <1>6
  <2> QED
    BY <2>1, <2>2, <1>1, <1>7 DEF StateOf
<1>10. \A f \in hit \ S : StateOf(f) = "condemned"
  BY <1>2, <1>3 DEF StateOf
<1>11. \A f \in FB \ hit : StateOf(f)' = StateOf(f)
  BY <1>1, <1>6, <1>8 DEF StateOf
<1>12. \A f \in FB : StateOf(f)' = IF f \in S THEN "condemned" ELSE StateOf(f)
  BY <1>9, <1>10, <1>11
<1> QED
  BY <1>4, <1>5, <1>12

(* A step that condemns framebuffers and changes no screen is Condemn. *)
LEMMA Condemning ==
  ASSUME NEW S \in SUBSET FB, \A f \in S : StateOf(f) = "kept",
         \A f \in FB : StateOf(f)' = IF f \in S THEN "condemned" ELSE StateOf(f),
         UNCHANGED <<screen, exposed>>,
         frame.at # "closed", frame'.at # "closed"
  PROVE  Contract!Next
<1>1. Contract!Condemn(S)
  BY DEF Contract!Condemn
<1> QED
  BY <1>1 DEF Contract!Next

(* A step that adds a framebuffer no list mentions is Create. *)
LEMMA Creating ==
  ASSUME Listed, NEW f \in FB, f \notin kernel, kernel' = kernel \union {f},
         \A g \in FB \ {f} : StateOf(g)' = StateOf(g), StateOf(f)' = "kept",
         UNCHANGED <<screen, exposed>>,
         frame.at # "closed", frame'.at # "closed"
  PROVE  Contract!Next
<1>1. StateOf(f) = "absent"
  BY DEF StateOf
<1>2. Contract!Create(f)
  BY <1>1 DEF Contract!Create
<1> QED
  BY <1>2 DEF Contract!Next

(* A step that removes framebuffers on no screen is Remove. *)
LEMMA Removing ==
  ASSUME NEW S \in SUBSET FB,
         \A f \in FB : StateOf(f)' = IF f \in S THEN "absent" ELSE StateOf(f),
         frame.at # "closed" => \A d \in Display \ exposed : S \intersect screen[d] = {},
         UNCHANGED <<screen, exposed>>,
         (frame'.at = "closed") <=> (frame.at = "closed")
  PROVE  Contract!Next
<1>1. Contract!Remove(S)
  BY DEF Contract!Remove
<1> QED
  BY <1>1 DEF Contract!Next

(* Initially there is no framebuffer, and the screens are empty. *)
LEMMA ContractInit == Init => Contract!Init
  BY DEF Init, Rest, Contract!Init, StateOf

(* Every step keeps to the contract. *)
LEMMA ContractStep ==
  ASSUME OneDisplayPerType, Base, Listed, ScreensOK, [Next]_vars
  PROVE  Contract!Next \/ UNCHANGED Contract!vars
<1> USE DisplayTypes
<1>1. CASE \E d \in Display : BeginFrame(d)
  BY <1>1, Unpromised DEF BeginFrame, lists, world, Idle, Rest
<1>2. CASE \E d \in Display : ClearDisplay(d)
  <2>1. PICK d \in Display : ClearDisplay(d)
    BY <1>2
  <2>2. \A f \in FB : StateOf(f)' = StateOf(f)
    BY <2>1 DEF ClearDisplay, lists, StateOf
  <2>3. Contract!Show(d, {})
    BY <2>1, <2>2 DEF ClearDisplay, world, Idle, Rest, Contract!Show, Base, TypeOK
  <2> QED
    BY <2>3 DEF Contract!Next
<1>3. CASE \E d \in Display : RemoveDisplay(d)
  <2>1. PICK d \in Display : RemoveDisplay(d)
    BY <1>3
  <2>2. \A f \in FB : StateOf(f)' = StateOf(f)
    BY <2>1 DEF RemoveDisplay, lists, StateOf
  <2>3. frame.at # "closed" /\ frame'.at # "closed"
    BY <2>1 DEF RemoveDisplay, Idle, Rest
  <2>4. Contract!Drop(d)
    BY <2>1, <2>2, <2>3 DEF RemoveDisplay, Contract!Drop
  <2> QED
    BY <2>4 DEF Contract!Next
<1>4. CASE \E f \in FB : GetCached(f)
  BY <1>4, Unpromised DEF GetCached, Composing, Attach, world, Base, TypeOK
<1>5. CASE \E f \in FB : AddColour(f)
  <2>1. PICK f \in FB : AddColour(f)
    BY <1>5
  <2>2. f \notin staging \union cached \union cleanup \union dying
    BY <2>1 DEF AddColour, Listed
  <2>3. \A g \in FB \ {f} : StateOf(g)' = StateOf(g)
    BY <2>1 DEF AddColour, StateOf
  <2>4. StateOf(f)' = "kept"
    BY <2>1, <2>2 DEF AddColour, StateOf, Base, TypeOK
  <2>5. frame.at # "closed" /\ frame'.at # "closed"
    BY <2>1 DEF AddColour, Composing, Attach, Base, TypeOK
  <2> QED
    BY <2>1, <2>3, <2>4, <2>5, Creating DEF AddColour, world
<1>6. CASE \E f \in FB, b \in Buf, o \in Owner : AddBuffer(f, b, o)
  <2>1. PICK f \in FB, b \in Buf, o \in Owner : AddBuffer(f, b, o)
    BY <1>6
  <2>2. f \notin staging \union cached \union cleanup \union dying
    BY <2>1 DEF AddBuffer, Listed
  <2>3. \A g \in FB \ {f} : StateOf(g)' = StateOf(g)
    BY <2>1 DEF AddBuffer, StateOf
  <2>4. ~info'[f].pending
    BY <2>1 DEF AddBuffer
  <2>5. StateOf(f)' = "kept"
    BY <2>1, <2>2, <2>4 DEF AddBuffer, StateOf
  <2>6. frame.at # "closed" /\ frame'.at # "closed"
    BY <2>1 DEF AddBuffer, Composing, Attach, Base, TypeOK
  <2> QED
    BY <2>1, <2>3, <2>5, <2>6, Creating DEF AddBuffer, world
<1>7. CASE \E o \in Owner : CreateLayer(o)
  BY <1>7, Unpromised DEF CreateLayer, lists
<1>8. CASE \E o \in Owner : DestroyLayer(o)
  <2>1. PICK o \in Owner : DestroyLayer(o)
    BY <1>8 DEF DestroyLayer
  <2>2. frame.at # "closed" /\ frame'.at # "closed"
    BY <2>1 DEF DestroyLayer, Idle, Rest, Goto
  <2> QED
    BY <2>1, <2>2, SweepCondemns, Condemning DEF DestroyLayer
<1>9. CASE \E b \in Buf : FreeBuffer(b)
  <2>1. PICK b \in Buf : FreeBuffer(b)
    BY <1>9 DEF FreeBuffer
  <2>2. frame.at # "closed" /\ frame'.at # "closed"
    BY <2>1 DEF FreeBuffer, Idle, Rest, Goto
  <2> QED
    BY <2>1, <2>2, SweepCondemns, Condemning DEF FreeBuffer
<1>10. CASE Commit
  <2>1. PICK d \in Display, planes \in SUBSET FB :
          d = frame.display /\ planes = frame.planes
    BY <1>10 DEF Commit, Base, ClientOK, TypeOK
  <2>2. planes \subseteq kernel
    BY <1>10, <2>1 DEF Commit, Base, ClientOK, Listed, Colours, TypeOK
  <2>3. \A f \in FB : StateOf(f)' = StateOf(f)
    BY <1>10 DEF Commit, lists, StateOf
  <2>4. frame.at # "closed" /\ frame'.at # "closed"
    BY <1>10 DEF Commit, Base, TypeOK
  <2>5. \A f \in planes : StateOf(f) # "absent"
    BY <2>2 DEF StateOf
  <2>6. [e \in Display |-> IF frame.at = "closed" \/ e \in exposed THEN {} ELSE screen[e]]'
          = [[e \in Display |-> IF frame.at = "closed" \/ e \in exposed THEN {}
                                ELSE screen[e]] EXCEPT ![d] = planes]
    BY <1>10, <2>1, <2>4 DEF Commit, Base, TypeOK
  <2>7. Contract!Show(d, planes)
    BY <2>3, <2>5, <2>6 DEF Contract!Show
  <2> QED
    BY <2>7 DEF Contract!Next
<1>11. CASE CommitFails
  BY <1>11, Unpromised DEF CommitFails, lists, world, Goto, Base, TypeOK
<1>12. CASE ModeSetRefused
  <2>1. PICK d \in Display : d = frame.display
    BY <1>12 DEF ModeSetRefused, Base, ClientOK
  <2>2. \A f \in FB : StateOf(f)' = StateOf(f)
    BY <1>12 DEF ModeSetRefused, lists, StateOf
  <2>3. frame.at # "closed" /\ frame'.at # "closed"
    BY <1>12 DEF ModeSetRefused, Base, TypeOK
  <2>4. Contract!Drop(d)
    BY <1>12, <2>1, <2>2, <2>3 DEF ModeSetRefused, Contract!Drop
  <2> QED
    BY <2>4 DEF Contract!Next
<1>13. CASE Flip
  <2> DEFINE d == frame.display
             gone == IF newColour[d] = {} THEN {}
                     ELSE IF frame.active THEN oldColour[d] ELSE newColour[d]
  <2>1. /\ d \in Display
        /\ frame.planes \subseteq staging \union newColour[d]
    BY <1>13 DEF Flip, Base, ClientOK
  <2>2. /\ UNCHANGED <<cleanup, dying, info, screen, exposed>>
        /\ kernel' = kernel \ gone
    BY <1>13 DEF Flip, world
  <2>3. frame.at = "flip" /\ frame'.at # "closed"
    BY <1>13 DEF Flip, Rest
  <2>4. gone \in SUBSET FB /\ gone \subseteq Colours
    BY <2>1 DEF Base, TypeOK, Colours
  <2>5. \A e \in Display \ exposed : gone \intersect screen[e] = {}
    <3> SUFFICES ASSUME NEW e \in Display \ exposed
                 PROVE  gone \intersect screen[e] = {}
      OBVIOUS
    <3>1. CASE frame.active /\ e = d
      BY <2>1, <2>3, <3>1 DEF ScreensOK, Listed, Colours, Base, TypeOK
    <3>2. CASE ~(frame.active /\ e = d)
      <4>1. screen[e] \subseteq stamped[TypeOf[e]] \union oldColour[e]
        BY <3>2 DEF ScreensOK
      <4>2. stamped[TypeOf[e]] \subseteq staging \union cached
        BY <2>3 DEF Base, StampsOK
      <4>3. gone \intersect oldColour[e] = {}
        BY <2>1, <3>2 DEF Listed
      <4> QED
        BY <2>4, <4>1, <4>2, <4>3 DEF Listed
    <3> QED
      BY <3>1, <3>2
  <2>6. \A f \in FB : StateOf(f)' = IF f \in gone THEN "absent" ELSE StateOf(f)
    BY <2>2 DEF StateOf
  <2> QED
    BY <2>2, <2>3, <2>4, <2>5, <2>6, Removing
<1>14. CASE Trim
  BY <1>14, Unpromised DEF Trim, lists, world, Rest
<1>15. CASE SweepDisplay
  <2>1. frame.at # "closed" /\ frame'.at # "closed"
    BY <1>15 DEF SweepDisplay, Rest
  <2> QED
    BY <1>15, <2>1, SweepCondemns, Condemning DEF SweepDisplay, world
<1>16. CASE Notify
  BY <1>16, Unpromised DEF Notify, lists, world, Rest
<1>17. CASE Close
  BY <1>17, Unpromised DEF Close, lists, world, Idle, Rest, Goto
<1>18. CASE CloseNotify
  BY <1>18, Unpromised DEF CloseNotify, lists, world, Goto, Base, TypeOK
<1>19. CASE Join
  <2> DEFINE S == staging \union cached \union cleanup
  <2>1. frame'.at = "closed"
    BY <1>19 DEF Join, Goto, Base, TypeOK
  <2>2. S \in SUBSET FB
    BY DEF Base, TypeOK
  <2>3. \A f \in FB : StateOf(f)' = IF f \in S THEN "absent" ELSE StateOf(f)
    BY <1>19 DEF Join, StateOf, Base, TypeOK
  <2>4. [f \in FB |-> StateOf(f)]'
          = [f \in FB |-> IF f \in S THEN "absent" ELSE [g \in FB |-> StateOf(g)][f]]
    BY <2>3
  <2>5. Contract!Close
    BY <2>1, <2>2, <2>4 DEF Contract!Close
  <2> QED
    BY <2>5 DEF Contract!Next
<1>20. CASE Wait
  BY <1>20, Unpromised DEF Wait, lists, world
<1>21. CASE WakeUp
  BY <1>21, Unpromised DEF WakeUp, lists, world
<1>22. CASE Collect
  <2>1. PICK s \in Surplus :
          /\ cached' = cached \ s
          /\ dying' = dying \union cleanup \union s
          /\ info' = [f \in DOMAIN info \ s |-> info[f]]
    BY <1>22 DEF Collect
  <2> DEFINE S == {f \in s : ~info[f].pending}
  <2>2. s \subseteq cached
    BY SurplusFree
  <2>3. /\ UNCHANGED <<kernel, screen, exposed, frame>>
        /\ cleanup' = {}
        /\ frame.at # "closed"
    BY <1>22 DEF Collect, world, Base, ClientOK
  <2>4. /\ cached \subseteq kernel /\ cached \subseteq FB
        /\ cached \intersect (cleanup \union dying) = {}
        /\ DOMAIN info = staging \union cached
    BY DEF Listed, Base, TypeOK
  <2>5. \A f \in S : StateOf(f) = "kept"
    BY <2>2, <2>4 DEF StateOf
  <2>6. \A f \in s : StateOf(f)' = "condemned"
    BY <2>1, <2>2, <2>3, <2>4 DEF StateOf
  <2>7. \A f \in s \ S : StateOf(f) = "condemned"
    BY <2>2, <2>4 DEF StateOf
  <2>8. \A f \in FB \ s : StateOf(f)' = StateOf(f)
    BY <2>1, <2>3 DEF StateOf
  <2>9. \A f \in FB : StateOf(f)' = IF f \in S THEN "condemned" ELSE StateOf(f)
    BY <2>6, <2>7, <2>8
  <2>10. S \in SUBSET FB
    BY <2>2, <2>4
  <2> QED
    BY <2>3, <2>5, <2>9, <2>10, Condemning
<1>23. CASE Clear
  <2>1. /\ UNCHANGED <<cleanup, info, screen, exposed, frame>>
        /\ kernel' = kernel \ dying /\ dying' = {}
        /\ frame.at # "closed"
    BY <1>23 DEF Clear, world, Base, ClientOK
  <2>2. \A d \in Display \ exposed : dying \intersect screen[d] = {}
    <3> SUFFICES ASSUME NEW d \in Display \ exposed
                 PROVE  dying \intersect screen[d] = {}
      OBVIOUS
    <3>1. screen[d] \subseteq staging \union cached \union Colours
      BY <2>1 DEF ScreensOK, Base, StampsOK, ClientOK, TypeOK, Colours
    <3> QED
      BY <3>1 DEF Listed
  <2>3. \A f \in FB : StateOf(f)' = IF f \in dying THEN "absent" ELSE StateOf(f)
    BY <2>1 DEF StateOf
  <2>4. dying \in SUBSET FB
    BY DEF Base, TypeOK
  <2> QED
    BY <2>1, <2>2, <2>3, <2>4, Removing
<1>24. CASE UNCHANGED vars
  BY <1>24, Unpromised DEF vars, lists, threads, world
<1>25. QED
  BY <1>1, <1>2, <1>3, <1>4, <1>5, <1>6, <1>7, <1>8, <1>9, <1>10, <1>11, <1>12,
     <1>13, <1>14, <1>15, <1>16, <1>17, <1>18, <1>19, <1>20, <1>21, <1>22,
     <1>23, <1>24 DEF Next, Client, Remover

(* With one display of each type, the manager implements its contract:      *)
(* whatever the lists, stamps and threads do, displays scan out what        *)
(* exists, nothing is removed under them and no removal is taken back.      *)
THEOREM ContractIsKept ==
  ASSUME OneDisplayPerType
  PROVE  Spec => ContractKept
<1>1. Init => ScreensOK /\ Contract!Init
  BY ScreensInit, ContractInit
<1>2. ScreensOK /\ Base /\ [Next]_vars => ScreensOK'
  BY ScreensStep
<1>3. ScreensOK /\ Base /\ Listed /\ [Next]_vars => [Contract!Next]_(Contract!vars)
  BY ContractStep
<1> QED
  BY Invariants, <1>1, <1>2, <1>3, PTL DEF Spec, ContractKept, Contract!Spec
=============================================================================
