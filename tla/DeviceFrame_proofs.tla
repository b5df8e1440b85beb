-------------------------- MODULE DeviceFrame_proofs --------------------------
(***************************************************************************)
(* Theorems about DeviceFrame, for every set of displays and every value   *)
(* of the parameters.                                                      *)
(***************************************************************************)
EXTENDS DeviceFrame, TLAPS

-----------------------------------------------------------------------------
(***************************************************************************)
(* What the operators on one display return                                *)
(***************************************************************************)

\* What a validate, an accept or the end of a frame leaves alone: what is shown
\* and what decides whether something may be shown.
SameSwitches(r, s) ==
    /\ s.plug = r.plug /\ s.power = r.power /\ s.layers = r.layers
    /\ s.hpd = r.hpd /\ (r.startLeft = 0 => s.startLeft = 0)
    /\ s.panel = r.panel

\* initDisplay() keeps the record a display and what it shows.
LEMMA InitDisplayFacts ==
    ASSUME NEW r \in DisplayState
    PROVE  InitDisplay(r) \in DisplayState /\ SameSwitches(r, InitDisplay(r))
BY DEF InitDisplay, DisplayState, RenderingState, SameSwitches

\* So does the start-frame handling of an external display.
LEMMA PreProcessExternalFacts ==
    ASSUME NEW r \in DisplayState
    PROVE  /\ PreProcessExternal(r) \in DisplayState
           /\ SameSwitches(r, PreProcessExternal(r))
<1> DEFINE i == IF r.startLeft > 0 THEN InitDisplay(r) ELSE r
<1>1. i \in DisplayState /\ SameSwitches(r, i)
  BY InitDisplayFacts DEF SameSwitches
<1> DEFINE b == (r.startLeft > 0)
<1>2. /\ b \in BOOLEAN
      /\ PreProcessExternal(r) = [i EXCEPT !.skipPresent = FALSE, !.skipFrame = b]
  BY DEF PreProcessExternal
<1> HIDE DEF i, b
<1>3. PreProcessExternal(r) \in DisplayState
  BY <1>1, <1>2, ZenonT(60) DEF DisplayState
<1>4. SameSwitches(r, PreProcessExternal(r))
  BY <1>1, <1>2 DEF DisplayState, SameSwitches
<1> QED
  BY <1>3, <1>4

\* preProcessValidate() of any kind of display changes nothing that is shown.
LEMMA PreProcessFacts ==
    ASSUME NEW d \in Display, NEW r \in DisplayState
    PROVE  PreProcess(d, r) \in DisplayState /\ SameSwitches(r, PreProcess(d, r))
<1> DEFINE n == [r EXCEPT !.skipVP = FALSE]
<1>1. n \in DisplayState /\ SameSwitches(r, n)
  BY DEF DisplayState, SameSwitches
<1>2. [n EXCEPT !.skipFrame = FALSE] \in DisplayState
      /\ SameSwitches(r, [n EXCEPT !.skipFrame = FALSE])
  BY DEF DisplayState, SameSwitches
<1>3. PreProcess(d, r) \in {PreProcessExternal(n), [n EXCEPT !.skipFrame = FALSE], n}
  BY DEF PreProcess
<1> HIDE DEF n
<1>4. PreProcessExternal(n) \in DisplayState /\ SameSwitches(r, PreProcessExternal(n))
  BY <1>1, PreProcessExternalFacts DEF SameSwitches
<1> QED
  BY <1>1, <1>2, <1>3, <1>4

\* postProcessValidate() likewise; the count of start frames stays a natural.
LEMMA PostProcessFacts ==
    ASSUME NEW d \in Display, NEW r \in DisplayState
    PROVE  PostProcess(d, r) \in DisplayState /\ SameSwitches(r, PostProcess(d, r))
<1>1. CASE d \in Externals /\ r.startLeft > 0
  <2> DEFINE i == InitDisplay(r)
             n == r.startLeft - 1
  <2>1. n \in Nat /\ r.startLeft # 0
    BY <1>1 DEF DisplayState
  <2>2. PostProcess(d, r) = [i EXCEPT !.rs = "validated", !.startLeft = n]
    BY <1>1 DEF PostProcess
  <2>3. i \in DisplayState /\ SameSwitches(r, i)
    BY InitDisplayFacts
  <2> HIDE DEF i, n
  <2>4. [i EXCEPT !.rs = "validated", !.startLeft = n] \in DisplayState
    BY <2>1, <2>3 DEF DisplayState, RenderingState
  <2>5. SameSwitches(r, [i EXCEPT !.rs = "validated", !.startLeft = n])
    BY <2>1, <2>3 DEF DisplayState, SameSwitches
  <2> QED
    BY <2>2, <2>4, <2>5
<1>2. CASE ~(d \in Externals /\ r.startLeft > 0) /\ d \in Virtuals
  <2> DEFINE n == IF r.startLeft > 0 THEN r.startLeft - 1 ELSE 0
  <2>1. n \in Nat /\ (r.startLeft = 0 => n = 0)
    BY DEF DisplayState
  <2>2. PostProcess(d, r) \in { [r EXCEPT !.skipFrame = TRUE, !.asg = "none", !.startLeft = n],
                                [r EXCEPT !.firstShown = TRUE] }
    BY <1>2 DEF PostProcess
  <2> HIDE DEF n
  <2>3. /\ [r EXCEPT !.skipFrame = TRUE, !.asg = "none", !.startLeft = n] \in DisplayState
        /\ SameSwitches(r, [r EXCEPT !.skipFrame = TRUE, !.asg = "none", !.startLeft = n])
    BY <2>1 DEF DisplayState, SameSwitches
  <2>4. /\ [r EXCEPT !.firstShown = TRUE] \in DisplayState
        /\ SameSwitches(r, [r EXCEPT !.firstShown = TRUE])
    BY DEF DisplayState, SameSwitches
  <2> QED
    BY <2>2, <2>3, <2>4
<1>3. CASE ~(d \in Externals /\ r.startLeft > 0) /\ d \notin Virtuals
  BY <1>3 DEF PostProcess, SameSwitches
<1> QED
  BY <1>1, <1>2, <1>3

\* Assigning resources changes no more than the assignment.
LEMMA AssignFacts ==
    ASSUME NEW r \in DisplayState
    PROVE  Assign(r) \in DisplayState /\ SameSwitches(r, Assign(r))
BY DEF Assign, DisplayState, SameSwitches

\* A validated display is ready for accept and present.
LEMMA SetValidateStateFacts ==
    ASSUME NEW r \in DisplayState
    PROVE  /\ SetValidateState(r) \in DisplayState
           /\ SameSwitches(r, SetValidateState(r))
           /\ SetValidateState(r).rs = "validated"
           /\ ~SetValidateState(r).skipPresent
BY DEF SetValidateState, DisplayState, RenderingState, SameSwitches

\* acceptDisplayChanges() leads from validated to accepted and nowhere else.
LEMMA AcceptFacts ==
    ASSUME NEW r \in DisplayState
    PROVE  /\ AcceptDisplayChanges(r) \in DisplayState
           /\ SameSwitches(r, AcceptDisplayChanges(r))
           /\ AcceptDisplayChanges(r).skipPresent = r.skipPresent
           /\ AcceptDisplayChanges(r).skipVP = r.skipVP
           /\ r.rs \in {"validated", "accepted"} => AcceptDisplayChanges(r).rs = "accepted"
<1>1. CASE r.rs = "validated"
  <2>1. AcceptDisplayChanges(r) = [r EXCEPT !.rs = "accepted", !.hrs = FALSE]
    BY <1>1 DEF AcceptDisplayChanges
  <2> QED
    BY <2>1 DEF DisplayState, RenderingState, SameSwitches
<1>2. CASE r.rs # "validated"
  BY <1>2 DEF AcceptDisplayChanges, SameSwitches
<1> QED
  BY <1>1, <1>2

\* presentDisplay() of a display blanks it, leaves it, or shows its assignment.
LEMMA DisplayPresentFacts ==
    ASSUME NEW d \in Display, NEW r \in DisplayState
    PROVE  /\ DisplayPresent(d, r) \in DisplayState
           /\ DisplayPresent(d, r).plug = r.plug
           /\ DisplayPresent(d, r).power = r.power
           /\ DisplayPresent(d, r).layers = r.layers
           /\ DisplayPresent(d, r).hpd = r.hpd
           /\ r.startLeft = 0 => DisplayPresent(d, r).startLeft = 0
           /\ \/ DisplayPresent(d, r).panel \in {"blank", r.panel}
              \/ (r.layers \/ d \in Virtuals) /\ (d \in Externals => r.hpd)
<1> DEFINE i == InitDisplay(r)
           f == [r EXCEPT !.skipFrame = FALSE]
           c == [r EXCEPT !.panel = "blank"]
           s == [r EXCEPT !.panel = r.asg]
<1>1. i \in DisplayState /\ SameSwitches(r, i)
  BY InitDisplayFacts
<1>2. f \in DisplayState /\ SameSwitches(r, f)
  BY DEF DisplayState, SameSwitches
<1>3. c \in DisplayState /\ c = [r EXCEPT !.panel = "blank"]
  BY DEF DisplayState
<1>4. s \in DisplayState /\ s = [r EXCEPT !.panel = r.asg]
  BY DEF DisplayState
<1>5. \/ DisplayPresent(d, r) \in {i, f, c}
      \/ DisplayPresent(d, r) = s /\ (r.layers \/ d \in Virtuals) /\ (d \in Externals => r.hpd)
  BY DEF DisplayPresent
<1> HIDE DEF i, f, c, s
<1>6. CASE DisplayPresent(d, r) \in {i, f}
  BY <1>1, <1>2, <1>6 DEF SameSwitches
<1>7. CASE DisplayPresent(d, r) = c
  BY <1>3, <1>7 DEF DisplayState
<1>8. CASE DisplayPresent(d, r) = s /\ (r.layers \/ d \in Virtuals) /\ (d \in Externals => r.hpd)
  BY <1>4, <1>8 DEF DisplayState
<1> QED
  BY <1>5, <1>6, <1>7, <1>8

-----------------------------------------------------------------------------
(***************************************************************************)
(* What the operators on the whole device return                           *)
(***************************************************************************)

Displays == [Display -> DisplayState]

\* The display is switched as before and shows nothing it did not show.
NothingNew(r, s) ==
    /\ s.plug = r.plug /\ s.power = r.power /\ s.layers = r.layers
    /\ s.hpd = r.hpd /\ (r.startLeft = 0 => s.startLeft = 0)
    /\ s.panel \in {"blank", r.panel}

\* What acceptDisplayChanges() and presentDisplay() ask about.
SameHandshake(r, s) ==
    s.rs = r.rs /\ s.skipPresent = r.skipPresent /\ s.skipVP = r.skipVP

\* Clearing the rendering state flags of all displays is no more than that.
LEMMA ClearFlagsFacts ==
    ASSUME NEW D \in Displays
    PROVE  /\ ClearRenderingStateFlags(D) \in Displays
           /\ \A x \in Display :
                /\ SameSwitches(D[x], ClearRenderingStateFlags(D)[x])
                /\ SameHandshake(D[x], ClearRenderingStateFlags(D)[x])
<1> DEFINE c(x) == [D[x] EXCEPT !.vflag = FALSE, !.pflag = FALSE]
<1>1. ASSUME NEW x \in Display
      PROVE  c(x) \in DisplayState /\ SameSwitches(D[x], c(x)) /\ SameHandshake(D[x], c(x))
  <2>1. D[x] \in DisplayState
    BY DEF Displays
  <2> QED
    BY <2>1 DEF DisplayState, SameSwitches, SameHandshake
<1>2. ClearRenderingStateFlags(D) = [x \in Display |-> c(x)]
  BY DEF ClearRenderingStateFlags
<1> HIDE DEF c
<1> QED
  BY <1>1, <1>2 DEF Displays

\* handlePresentError() shows nothing new.
LEMMA PresentErrorFacts ==
    ASSUME NEW d \in Display, NEW r \in DisplayState
    PROVE  /\ HandlePresentError(d, r) \in DisplayState
           /\ NothingNew(r, HandlePresentError(d, r))
BY DEF HandlePresentError, DisplayState, NothingNew

\* The end of a present, and of the frame with it, shows nothing new.
LEMMA PresentPostProcessingFacts ==
    ASSUME NEW D \in Displays, NEW g \in BOOLEAN, NEW d \in Display, NEW f \in BOOLEAN,
           NEW p, p = PresentPostProcessing(D, g, d, f)
    PROVE  /\ p.disp \in Displays /\ p.geo \in BOOLEAN
           /\ \A x \in Display : NothingNew(D[x], p.disp[x])
           /\ \A x \in Display \ {d} : SameHandshake(D[x], p.disp[x])
<1> DEFINE r == [D[d] EXCEPT !.rs = "presented", !.pflag = TRUE]
           s == IF f THEN HandlePresentError(d, r) ELSE r
           P == [D EXCEPT ![d] = s]
<1>1. r \in DisplayState /\ NothingNew(D[d], r)
  <2>1. D[d] \in DisplayState
    BY DEF Displays
  <2> QED
    BY <2>1 DEF DisplayState, RenderingState, NothingNew
<1>2. p = IF IsLastPresent(d, P) THEN FinishFrame(P)
          ELSE [disp |-> P, geo |-> (g \/ f)]
  BY DEF PresentPostProcessing
<1> HIDE DEF r
<1>3. s \in DisplayState /\ NothingNew(D[d], s)
  BY <1>1, PresentErrorFacts DEF NothingNew
<1> HIDE DEF s
<1>4. /\ P \in Displays
      /\ \A x \in Display : NothingNew(D[x], P[x])
      /\ \A x \in Display \ {d} : SameHandshake(D[x], P[x])
  BY <1>3 DEF Displays, NothingNew, SameHandshake
<1> HIDE DEF P
<1>5. CASE p = FinishFrame(P)
  <2>1. p.disp = ClearRenderingStateFlags(P) /\ p.geo = SkippedThisFrame(P)
    BY <1>5 DEF FinishFrame
  <2>2. p.geo \in BOOLEAN
    BY <2>1 DEF SkippedThisFrame
  <2> QED
    BY <1>4, <2>1, <2>2, ClearFlagsFacts DEF NothingNew, SameSwitches, SameHandshake, Displays
<1>6. CASE p = [disp |-> P, geo |-> (g \/ f)]
  BY <1>4, <1>6
<1> QED
  BY <1>2, <1>5, <1>6

\* A frame of the display may be shown.
MayShow(d, r) ==
    ~Suspended(r) /\ (r.layers \/ d \in Virtuals) /\ (d \in Externals => r.hpd)

\* What every way through presentDisplay() guarantees: other displays keep their
\* handshake, and only d may show something new.
PresentResult(D, d, p) ==
    /\ p.disp \in Displays /\ p.geo \in BOOLEAN
    /\ p.ret \in {"NONE", "ERROR", "NOT_VALIDATED"}
    /\ \A x \in Display \ {d} :
         NothingNew(D[x], p.disp[x]) /\ SameHandshake(D[x], p.disp[x])
    /\ NothingNew(D[d], [p.disp[d] EXCEPT !.panel = D[d].panel])
    /\ NothingNew(D[d], p.disp[d]) \/ MayShow(d, D[d])

\* A forced skip of the present shows nothing.
LEMMA ForceSkipPresentFacts ==
    ASSUME NEW D \in Displays, NEW g \in BOOLEAN, NEW d \in Display
    PROVE  PresentResult(D, d, ForceSkipPresent(D, g, d))
<1> DEFINE r == [D[d] EXCEPT !.rs = "presented", !.pflag = FALSE]
<1>1. D[d] \in DisplayState
  BY DEF Displays
<1>2. r \in DisplayState /\ NothingNew(D[d], r)
      /\ NothingNew(D[d], [r EXCEPT !.panel = D[d].panel])
  BY <1>1 DEF DisplayState, RenderingState, NothingNew
<1>3. ForceSkipPresent(D, g, d) = [disp |-> [D EXCEPT ![d] = r], geo |-> g, ret |-> "NONE"]
  BY DEF ForceSkipPresent, Displays
<1> HIDE DEF r
<1> QED
  BY <1>2, <1>3 DEF PresentResult, NothingNew, SameHandshake, Displays

\* A skipped present shows nothing and is refused only to an unready display.
LEMMA SkipPresentFacts ==
    ASSUME NEW D \in Displays, NEW g \in BOOLEAN, NEW d \in Display, NEW f \in BOOLEAN
    PROVE  /\ PresentResult(D, d, SkipPresent(D, g, d, f))
           /\ D[d].skipVP => SkipPresent(D, g, d, f).ret = "NONE"
<1>1. \A x \in Display : D[x] \in DisplayState
  BY DEF Displays
<1>2. CASE D[d].skipVP \/ D[d].rs = "none"
  <2> DEFINE p == PresentPostProcessing(D, g, d, f)
  <2>1. SkipPresent(D, g, d, f) = [disp |-> p.disp, geo |-> p.geo, ret |-> "NONE"]
    BY <1>2 DEF SkipPresent
  <2>2. /\ p.disp \in Displays /\ p.geo \in BOOLEAN
        /\ \A x \in Display : NothingNew(D[x], p.disp[x])
        /\ \A x \in Display \ {d} : SameHandshake(D[x], p.disp[x])
    BY PresentPostProcessingFacts
  <2> HIDE DEF p
  <2>3. NothingNew(D[d], [p.disp[d] EXCEPT !.panel = D[d].panel])
    BY <1>1, <2>2 DEF NothingNew, Displays, DisplayState
  <2> QED
    BY <2>1, <2>2, <2>3 DEF PresentResult
<1>3. CASE ~(D[d].skipVP \/ D[d].rs = "none")
  <2>1. SkipPresent(D, g, d, f) = [disp |-> D, geo |-> g, ret |-> "NOT_VALIDATED"]
    BY <1>3 DEF SkipPresent
  <2>2. NothingNew(D[d], [D[d] EXCEPT !.panel = D[d].panel])
    BY <1>1 DEF NothingNew, DisplayState
  <2> QED
    BY <1>3, <2>1, <2>2 DEF PresentResult, NothingNew, SameHandshake
<1> QED
  BY <1>2, <1>3

\* A refused present changes the rendering state and the geometry flag only.
LEMMA RejectPresentFacts ==
    ASSUME NEW D \in Displays, NEW g \in BOOLEAN, NEW d \in Display, NEW c
    PROVE  PresentResult(D, d, RejectPresent(D, g, d, c))
<1> DEFINE r == [D[d] EXCEPT !.rs = "none"]
           h == g \/ c = "changed"
<1>1. D[d] \in DisplayState
  BY DEF Displays
<1>2. r \in DisplayState /\ NothingNew(D[d], r)
      /\ NothingNew(D[d], [r EXCEPT !.panel = D[d].panel])
  BY <1>1 DEF DisplayState, RenderingState, NothingNew
<1>3. RejectPresent(D, g, d, c) = [disp |-> [D EXCEPT ![d] = r], geo |-> h, ret |-> "NOT_VALIDATED"]
  BY DEF RejectPresent, Displays
<1>4. h \in BOOLEAN
  OBVIOUS
<1> HIDE DEF r, h
<1> QED
  BY <1>2, <1>3, <1>4 DEF PresentResult, NothingNew, SameHandshake, Displays

\* A committed frame shows on the presented display only.
LEMMA CommitFrameFacts ==
    ASSUME NEW D \in Displays, NEW g \in BOOLEAN, NEW d \in Display,
           NEW c \in BOOLEAN, NEW f \in BOOLEAN, ~Suspended(D[d])
    PROVE  /\ PresentResult(D, d, CommitFrame(D, g, d, c, f))
           /\ CommitFrame(D, g, d, c, f).ret # "NOT_VALIDATED"
<1> DEFINE bad == c /\ Committing(d, D[d])
           n == IF bad THEN HandlePresentError(d, D[d]) ELSE DisplayPresent(d, D[d])
           N == [D EXCEPT ![d] = n]
           p == PresentPostProcessing(N, g, d, f)
           q == CommitFrame(D, g, d, c, f)
<1>1. D[d] \in DisplayState
  BY DEF Displays
<1>2. /\ n \in DisplayState
      /\ n.plug = D[d].plug /\ n.power = D[d].power /\ n.layers = D[d].layers
      /\ n.hpd = D[d].hpd /\ (D[d].startLeft = 0 => n.startLeft = 0)
      /\ n.panel \in {"blank", D[d].panel} \/ MayShow(d, D[d])
  BY <1>1, PresentErrorFacts, DisplayPresentFacts DEF NothingNew, MayShow
<1>3. q = [disp |-> p.disp, geo |-> (p.geo \/ bad),
           ret |-> IF bad \/ f THEN "ERROR" ELSE "NONE"]
  BY DEF CommitFrame
<1>4. bad \in BOOLEAN
  BY DEF Committing
<1> HIDE DEF bad, n, p, q
<1>5. N \in Displays /\ N[d] = n /\ \A x \in Display \ {d} : N[x] = D[x]
  BY <1>2 DEF Displays
<1>6. /\ p.disp \in Displays /\ p.geo \in BOOLEAN
      /\ \A x \in Display : NothingNew(N[x], p.disp[x])
      /\ \A x \in Display \ {d} : SameHandshake(N[x], p.disp[x])
  BY <1>5, PresentPostProcessingFacts DEF p
<1> HIDE DEF N
<1>7. q.disp = p.disp /\ q.geo \in BOOLEAN /\ q.ret \in {"NONE", "ERROR"}
  BY <1>3, <1>4, <1>6
<1>8. NothingNew(D[d], [p.disp[d] EXCEPT !.panel = D[d].panel])
  <2>1. p.disp[d] \in DisplayState
    BY <1>6 DEF Displays
  <2> QED
    BY <2>1, <1>2, <1>5, <1>6 DEF NothingNew, DisplayState
<1>9. NothingNew(D[d], p.disp[d]) \/ MayShow(d, D[d])
  BY <1>2, <1>5, <1>6 DEF NothingNew
<1>10. \A x \in Display \ {d} :
         NothingNew(D[x], p.disp[x]) /\ SameHandshake(D[x], p.disp[x])
  BY <1>5, <1>6
<1> QED
  BY <1>6, <1>7, <1>8, <1>9, <1>10 DEF PresentResult, q

\* A validated or accepted display whose present will not ask for a validate.
Ready(r) == ~r.skipPresent \/ r.skipVP

\* presentDisplay() of the device as a whole: what each path may show or refuse.
LEMMA PresentDisplayFacts ==
    ASSUME NEW Dev \in Displays, NEW g \in BOOLEAN, NEW d \in Display, NEW content,
           NEW c \in BOOLEAN, NEW f \in BOOLEAN,
           NEW p, p = PresentDisplay(Dev, g, d, content, c, f)
    PROVE  /\ PresentResult(Dev, d, p)
           /\ Dev[d].rs = "accepted" /\ Ready(Dev[d]) => p.ret # "NOT_VALIDATED"
<1> DEFINE a == IF Dev[d].hrs THEN AcceptDisplayChanges(Dev[d]) ELSE Dev[d]
           b == (a.skipVP \/ Suspended(a))
           n == [a EXCEPT !.skipVP = b, !.hrs = FALSE]
           D == [Dev EXCEPT ![d] = n]
<1>1. Dev[d] \in DisplayState
  BY DEF Displays
<1>2. /\ a \in DisplayState /\ SameSwitches(Dev[d], a)
      /\ a.skipPresent = Dev[d].skipPresent /\ a.skipVP = Dev[d].skipVP
      /\ Dev[d].rs = "accepted" => a.rs = "accepted"
  BY <1>1, AcceptFacts DEF SameSwitches
<1>3. Suspended(a) = Suspended(Dev[d])
  BY <1>2 DEF Suspended, SameSwitches
<1>4. p = IF Suspended(a) /\ FlagsCleared(D) THEN ForceSkipPresent(D, g, d)
          ELSE IF D[d].skipPresent \/ D[d].skipVP THEN SkipPresent(D, g, d, f)
          ELSE IF D[d].rs # "accepted" /\ ~CanSkipValidate(D, g, content)
          THEN RejectPresent(D, g, d, content)
          ELSE CommitFrame(D, g, d, c, f)
  <2> DEFINE A == IF Dev[d].hrs THEN [Dev EXCEPT ![d] = AcceptDisplayChanges(@)] ELSE Dev
             E == [A EXCEPT ![d].skipVP = @ \/ Suspended(A[d]), ![d].hrs = FALSE]
  <2>1. A[d] = a /\ A = [Dev EXCEPT ![d] = a]
    BY DEF Displays
  <2>2. p = IF Suspended(A[d]) /\ FlagsCleared(E) THEN ForceSkipPresent(E, g, d)
            ELSE IF E[d].skipPresent \/ E[d].skipVP THEN SkipPresent(E, g, d, f)
            ELSE IF E[d].rs # "accepted" /\ ~CanSkipValidate(E, g, content)
            THEN RejectPresent(E, g, d, content)
            ELSE CommitFrame(E, g, d, c, f)
    BY DEF PresentDisplay
  <2>3. E = D
    <3> HIDE DEF A, a
    <3> QED
      BY <2>1, <1>2 DEF Displays
  <2> HIDE DEF A, E, D, a
  <2> QED
    BY <2>1, <2>2, <2>3
<1>5. b \in BOOLEAN /\ b = (Dev[d].skipVP \/ Suspended(Dev[d]))
  BY <1>1, <1>2, <1>3 DEF DisplayState, Suspended
<1> HIDE DEF a, b
<1>6. /\ n \in DisplayState /\ SameSwitches(Dev[d], n)
      /\ n.skipPresent = Dev[d].skipPresent /\ n.skipVP = b
      /\ Dev[d].rs = "accepted" => n.rs = "accepted"
  <2>1. n \in DisplayState
    BY <1>2, <1>5, ZenonT(60) DEF DisplayState
  <2>2. /\ n.plug = a.plug /\ n.power = a.power /\ n.layers = a.layers
        /\ n.hpd = a.hpd /\ n.startLeft = a.startLeft
        /\ n.panel = a.panel /\ n.skipPresent = a.skipPresent
        /\ n.rs = a.rs /\ n.skipVP = b
    BY <1>2 DEF DisplayState
  <2> QED
    BY <1>2, <2>1, <2>2 DEF SameSwitches
<1> HIDE DEF n
<1>7. D \in Displays /\ D[d] = n /\ \A x \in Display \ {d} : D[x] = Dev[x]
  BY <1>6 DEF Displays
<1>8. Suspended(D[d]) = Suspended(Dev[d])
  BY <1>6, <1>7 DEF Suspended, SameSwitches
<1> HIDE DEF D
<1>9. PresentResult(D, d, p) => PresentResult(Dev, d, p)
  <2>1. MayShow(d, D[d]) => MayShow(d, Dev[d])
    BY <1>6, <1>7, <1>8 DEF MayShow, SameSwitches
  <2>2. D[d].plug = Dev[d].plug /\ D[d].power = Dev[d].power
        /\ D[d].layers = Dev[d].layers /\ D[d].panel = Dev[d].panel
        /\ D[d].hpd = Dev[d].hpd /\ (Dev[d].startLeft = 0 => D[d].startLeft = 0)
    BY <1>6, <1>7 DEF SameSwitches
  <2> QED
    BY <1>7, <2>1, <2>2 DEF PresentResult, NothingNew
<1>10. CASE p = ForceSkipPresent(D, g, d)
  <2>1. p.ret = "NONE"
    BY <1>10 DEF ForceSkipPresent
  <2> QED
    BY <1>7, <1>9, <1>10, <2>1, ForceSkipPresentFacts
<1>11. CASE p = SkipPresent(D, g, d, f) /\ (D[d].skipPresent \/ D[d].skipVP)
  <2>1. Ready(Dev[d]) => D[d].skipVP
    BY <1>1, <1>5, <1>6, <1>7, <1>11 DEF Ready, DisplayState
  <2> QED
    BY <1>7, <1>9, <1>11, <2>1, SkipPresentFacts
<1>12. CASE p = RejectPresent(D, g, d, content) /\ D[d].rs # "accepted"
  BY <1>6, <1>7, <1>9, <1>12, RejectPresentFacts
<1>13. CASE p = CommitFrame(D, g, d, c, f) /\ ~D[d].skipVP
  <2>1. ~Suspended(D[d])
    BY <1>5, <1>6, <1>7, <1>8, <1>13
  <2> QED
    BY <1>7, <1>9, <1>13, <2>1, CommitFrameFacts
<1> QED
  BY <1>4, <1>10, <1>11, <1>12, <1>13

Steps == {"none", "assign", "post"}

\* One display of the validation loop ends validated, whichever step fails.
LEMMA ValidateOneFacts ==
    ASSUME NEW d \in Display, NEW r \in DisplayState, NEW g \in BOOLEAN,
           NEW fail \in Steps
    PROVE  LET s == ValidateOne(d, r, g, fail)
           IN  /\ s \in DisplayState /\ SameSwitches(r, s)
               /\ s.rs = "validated" /\ ~s.skipPresent
<1> DEFINE a == IF g /\ ~r.skipFrame THEN Assign(r) ELSE r
           t == CASE fail = "none" -> PostProcess(d, a)
                  [] fail = "assign" -> Assign(a)
                  [] fail = "post" -> Assign(PostProcess(d, a))
<1>1. a \in DisplayState /\ SameSwitches(r, a)
  BY AssignFacts DEF SameSwitches
<1>2. ValidateOne(d, r, g, fail) = SetValidateState(t)
  BY DEF ValidateOne
<1>3. t \in {PostProcess(d, a), Assign(a), Assign(PostProcess(d, a))}
  <2> HIDE DEF a
  <2> QED
    BY DEF Steps
<1> HIDE DEF a, t
<1>4. t \in DisplayState /\ SameSwitches(r, t)
  BY <1>1, <1>3, AssignFacts, PostProcessFacts DEF SameSwitches
<1> QED
  BY <1>2, <1>4, SetValidateStateFacts DEF SameSwitches

\* The first validate of a frame shows nothing and validates its caller.
LEMMA ValidateAllFacts ==
    ASSUME NEW D \in Displays, NEW g \in BOOLEAN, NEW d \in Display,
           NEW changed \in BOOLEAN, NEW prepareFails \in BOOLEAN,
           NEW failed \in [Display -> Steps],
           NEW v, v = ValidateAllDisplays(D, g, d, changed, prepareFails, failed)
    PROVE  /\ v.disp \in Displays /\ v.geo \in BOOLEAN /\ v.ret \in {"NONE", "ERROR"}
           /\ \A x \in Display : SameSwitches(D[x], v.disp[x])
           /\ v.ret = "NONE" => v.disp[d].rs = "validated" /\ ~v.disp[d].skipPresent
<1> DEFINE Todo == {x \in Display : ~SkipInValidateAll(D, x, d)}
           P == [x \in Display |-> IF x \in Todo THEN PreProcess(x, D[x]) ELSE D[x]]
           gp == g \/ changed \/ \E x \in Todo : PreProcessGeometry(x, D[x])
           R == IF gp THEN [x \in Display |-> [P[x] EXCEPT !.asg = "none"]] ELSE P
           flagged(x) == gp \/ \E y \in Todo : Rank(y) > Rank(x) /\ failed[y] # "none"
           V == [x \in Display |->
                   IF x \in Todo THEN ValidateOne(x, R[x], flagged(x), failed[x]) ELSE R[x]]
           h == gp \/ \E x \in Todo : failed[x] # "none"
<1>1. v = IF gp /\ prepareFails THEN [disp |-> R, geo |-> TRUE, ret |-> "ERROR"]
          ELSE [disp |-> V, geo |-> h, ret |-> "NONE"]
  BY DEF ValidateAllDisplays
<1>2. d \in Todo
  BY DEF SkipInValidateAll
<1>3. gp \in BOOLEAN /\ h \in BOOLEAN /\ \A x \in Display : flagged(x) \in BOOLEAN
  OBVIOUS
<1> HIDE DEF Todo, gp, h, flagged
<1>4. P \in Displays /\ \A x \in Display : SameSwitches(D[x], P[x])
  <2>1. ASSUME NEW x \in Display
        PROVE  P[x] \in DisplayState /\ SameSwitches(D[x], P[x])
    BY PreProcessFacts DEF Displays, SameSwitches
  <2> QED
    BY <2>1 DEF Displays
<1> HIDE DEF P
<1>5. R \in Displays /\ \A x \in Display : SameSwitches(D[x], R[x])
  <2>1. ASSUME NEW x \in Display
        PROVE  /\ [P[x] EXCEPT !.asg = "none"] \in DisplayState
               /\ SameSwitches(D[x], [P[x] EXCEPT !.asg = "none"])
    <3>1. P[x] \in DisplayState /\ SameSwitches(D[x], P[x])
      BY <1>4 DEF Displays
    <3> QED
      BY <3>1 DEF DisplayState, SameSwitches
  <2>2. R = P \/ R = [x \in Display |-> [P[x] EXCEPT !.asg = "none"]]
    OBVIOUS
  <2> HIDE DEF R
  <2>3. CASE R = P
    BY <1>4, <2>3
  <2>4. CASE R = [x \in Display |-> [P[x] EXCEPT !.asg = "none"]]
    BY <2>1, <2>4 DEF Displays
  <2> QED
    BY <2>2, <2>3, <2>4
<1> HIDE DEF R
<1>6. ASSUME NEW x \in Display
      PROVE  /\ V[x] \in DisplayState /\ SameSwitches(D[x], V[x])
             /\ x \in Todo => V[x].rs = "validated" /\ ~V[x].skipPresent
  <2>1. R[x] \in DisplayState /\ failed[x] \in Steps /\ flagged(x) \in BOOLEAN
    BY <1>3, <1>5 DEF Displays
  <2>2. LET s == ValidateOne(x, R[x], flagged(x), failed[x])
        IN  /\ s \in DisplayState /\ SameSwitches(R[x], s)
            /\ s.rs = "validated" /\ ~s.skipPresent
    BY <2>1, ValidateOneFacts
  <2>3. V[x] = IF x \in Todo THEN ValidateOne(x, R[x], flagged(x), failed[x]) ELSE R[x]
    OBVIOUS
  <2> HIDE DEF V
  <2> QED
    BY <1>5, <2>1, <2>2, <2>3 DEF SameSwitches
<1>7. V \in Displays
  BY <1>6 DEF Displays
<1> HIDE DEF V
<1>8. CASE v = [disp |-> R, geo |-> TRUE, ret |-> "ERROR"]
  BY <1>5, <1>8
<1>9. CASE v = [disp |-> V, geo |-> h, ret |-> "NONE"]
  <2>1. v.disp = V /\ v.geo = h /\ v.ret = "NONE"
    BY <1>9
  <2> QED
    BY <2>1, <1>2, <1>3, <1>6, <1>7
<1> QED
  BY <1>1, <1>8, <1>9

\* What validateDisplay() guarantees: nothing is switched or shown, and a
\* display that was validated will not be asked to validate again.
ValidateResult(D, d, v) ==
    /\ v.disp \in Displays /\ v.geo \in BOOLEAN /\ v.ret \in {"NONE", "ERROR"}
    /\ \A x \in Display : SameSwitches(D[x], v.disp[x])
    /\ v.ret = "NONE" => v.disp[d].rs = "validated" /\ Ready(v.disp[d])

\* Whichever branch validateDisplay() takes, its caller is validated and ready.
LEMMA ValidateDisplayFacts ==
    ASSUME NEW D \in Displays, NEW g \in BOOLEAN, NEW d \in Display,
           NEW changed \in BOOLEAN, NEW prepareFails \in BOOLEAN,
           NEW failed \in [Display -> Steps]
    PROVE  ValidateResult(D, d, ValidateDisplay(D, g, d, changed, prepareFails, failed))
<1> DEFINE v == ValidateDisplay(D, g, d, changed, prepareFails, failed)
<1> SUFFICES ValidateResult(D, d, v)
  OBVIOUS
<1>1. D[d] \in DisplayState
  BY DEF Displays
<1> DEFINE Set(E, r) == [E EXCEPT ![d] = r]
<1>2. ASSUME NEW E \in Displays, NEW r \in DisplayState, SameSwitches(E[d], r)
      PROVE  /\ Set(E, r) \in Displays /\ Set(E, r)[d] = r
             /\ \A x \in Display : SameSwitches(E[x], Set(E, r)[x])
  BY <1>2 DEF Displays, SameSwitches
<1>3. CASE Suspended(D[d])
  <2> DEFINE r == [D[d] EXCEPT !.skipVP = TRUE, !.rs = "validated", !.vflag = FALSE,
                               !.hrs = TRUE]
  <2>1. r \in DisplayState /\ SameSwitches(D[d], r) /\ r.rs = "validated" /\ Ready(r)
    BY <1>1 DEF DisplayState, RenderingState, SameSwitches, Ready
  <2>2. v = [disp |-> Set(D, r), geo |-> g, ret |-> "NONE"]
    BY <1>3 DEF ValidateDisplay, Displays
  <2> HIDE DEF r, Set, v
  <2>3. v.disp = Set(D, r) /\ v.geo = g /\ v.ret = "NONE"
    BY <2>2
  <2> QED
    BY <1>2, <2>1, <2>3 DEF ValidateResult
<1>4. CASE ~Suspended(D[d]) /\ IsFirstValidate(D)
  <2> DEFINE w == ValidateAllDisplays(D, g, d, changed, prepareFails, failed)
             r == [w.disp[d] EXCEPT !.hrs = TRUE]
  <2>1. /\ w.disp \in Displays /\ w.geo \in BOOLEAN /\ w.ret \in {"NONE", "ERROR"}
        /\ \A x \in Display : SameSwitches(D[x], w.disp[x])
        /\ w.ret = "NONE" => w.disp[d].rs = "validated" /\ ~w.disp[d].skipPresent
    BY ValidateAllFacts
  <2>2. v = [w EXCEPT !.disp[d].hrs = TRUE]
    BY <1>4 DEF ValidateDisplay
  <2>3. w = [disp |-> w.disp, geo |-> w.geo, ret |-> w.ret]
    BY DEF ValidateAllDisplays
  <2> HIDE DEF w, v
  <2>4. v.disp = Set(w.disp, r) /\ v.geo = w.geo /\ v.ret = w.ret
    BY <2>1, <2>2, <2>3 DEF Displays
  <2>5. w.disp[d] \in DisplayState
    BY <2>1 DEF Displays
  <2>6. r \in DisplayState /\ SameSwitches(w.disp[d], r)
        /\ r.rs = w.disp[d].rs /\ r.skipPresent = w.disp[d].skipPresent
    BY <2>5 DEF DisplayState, SameSwitches
  <2> HIDE DEF r, Set
  <2>7. /\ v.disp \in Displays /\ v.disp[d] = r
        /\ \A x \in Display : SameSwitches(w.disp[x], v.disp[x])
    BY <1>2, <2>1, <2>4, <2>6
  <2>8. \A x \in Display : SameSwitches(D[x], v.disp[x])
    BY <2>1, <2>7 DEF SameSwitches
  <2>9. v.ret = "NONE" => r.rs = "validated" /\ Ready(r)
    BY <2>1, <2>4, <2>6 DEF Ready
  <2> QED
    BY <2>1, <2>4, <2>7, <2>8, <2>9 DEF ValidateResult
<1>5. CASE ~Suspended(D[d]) /\ ~IsFirstValidate(D)
  <2> DEFINE n == [D[d] EXCEPT !.skipVP = ~D[d].vflag, !.hrs = TRUE]
             r == SetValidateState(n)
  <2>1. n \in DisplayState /\ SameSwitches(D[d], n)
    BY <1>1 DEF DisplayState, SameSwitches
  <2>2. v = [disp |-> Set(D, r), geo |-> g, ret |-> "NONE"]
    BY <1>5 DEF ValidateDisplay, AlreadyValidated, Displays
  <2> HIDE DEF n
  <2>3. r \in DisplayState /\ SameSwitches(D[d], r) /\ r.rs = "validated" /\ Ready(r)
    BY <2>1, SetValidateStateFacts DEF SameSwitches, Ready
  <2> HIDE DEF r, Set, v
  <2>4. v.disp = Set(D, r) /\ v.geo = g /\ v.ret = "NONE"
    BY <2>2
  <2> QED
    BY <1>2, <2>3, <2>4 DEF ValidateResult
<1> QED
  BY <1>3, <1>4, <1>5

-----------------------------------------------------------------------------
(***************************************************************************)
(* Power, hotplug and virtual displays                                     *)
(***************************************************************************)

\* An external display that cannot show a frame, or skips its start frames, is
\* blank.
ExternalBlank(r) ==
    ~r.plug \/ ~r.hpd \/ r.power = "off" \/ r.startLeft # 0 => r.panel = "blank"

\* A step of display d from r to s: something new is shown only if it may be,
\* a primary display that is off after the step is blank, or was off before
\* and shows what it showed, and an external one that does not show a start
\* frame is blank when it has to.  Only a plug brings start frames, and only an
\* external display is unplugged.
PanelStep(d, r, s) ==
    /\ s.panel \in {"blank", r.panel} \/ MayShow(d, r)
    /\ d \in Primaries /\ s.power = "off" =>
         s.panel = "blank" \/ (r.power = "off" /\ s.panel = r.panel)
    /\ /\ d \in Externals /\ ExternalBlank(r)
       /\ r.startLeft = 0 \/ s.panel \in {"blank", r.panel}
       => ExternalBlank(s)
    /\ d \in Primaries => s.plug = r.plug
    /\ d \in Externals /\ ExtStart = 0 /\ r.startLeft = 0 => s.startLeft = 0

\* The display shows what it showed or nothing; its handshake is kept, and only
\* a plug brings start frames.
Undisturbed(r, s) ==
    /\ s.panel \in {"blank", r.panel} /\ SameHandshake(r, s)
    /\ s.startLeft \in {r.startLeft, ExtStart}

\* disable() blanks the display or leaves it.
LEMMA DisableFacts ==
    ASSUME NEW r \in DisplayState, NEW f \in BOOLEAN
    PROVE  /\ Disable(r, f) \in DisplayState /\ Undisturbed(r, Disable(r, f))
           /\ (r.startLeft # 0 => r.panel = "blank") => Disable(r, f).panel = "blank"
<1> DEFINE c == IF r.startLeft = 0 THEN [r EXCEPT !.panel = "blank"] ELSE r
<1>1. /\ c \in DisplayState /\ Undisturbed(r, c)
      /\ (r.startLeft # 0 => r.panel = "blank") => c.panel = "blank"
  BY DEF DisplayState, Undisturbed, SameHandshake
<1>2. Disable(r, f) = c \/ Disable(r, f) = [c EXCEPT !.enabled = FALSE, !.power = "off"]
  BY DEF Disable
<1> HIDE DEF c
<1>3. LET s == [c EXCEPT !.enabled = FALSE, !.power = "off"]
      IN  s \in DisplayState /\ Undisturbed(r, s) /\ s.panel = c.panel
  <2>1. [c EXCEPT !.enabled = FALSE, !.power = "off"] \in DisplayState
    BY <1>1 DEF DisplayState, PowerMode
  <2>2. /\ Undisturbed(r, [c EXCEPT !.enabled = FALSE, !.power = "off"])
        /\ [c EXCEPT !.enabled = FALSE, !.power = "off"].panel = c.panel
    BY <1>1 DEF DisplayState, Undisturbed, SameHandshake
  <2> QED
    BY <2>1, <2>2
<1> QED
  BY <1>1, <1>2, <1>3

\* Opening an external display disturbs no frame.
LEMMA OpenFacts ==
    ASSUME NEW r \in DisplayState, NEW f \in BOOLEAN
    PROVE  LET s == OpenExternalDisplay(r, f)
           IN  s \in DisplayState /\ Undisturbed(r, s) /\ s.panel = r.panel
BY ParamAssumption DEF OpenExternalDisplay, DisplayState, Undisturbed, SameHandshake

\* Neither does closing it.
LEMMA CloseFacts ==
    ASSUME NEW r \in DisplayState, NEW f1 \in BOOLEAN, NEW f2 \in BOOLEAN
    PROVE  LET s == CloseExternalDisplay(r, f1, f2)
           IN  /\ s \in DisplayState /\ Undisturbed(r, s)
               /\ ExternalBlank(r) => s.panel = "blank"
<1> DEFINE n == [r EXCEPT !.hpd = FALSE]
           c == Disable(n, f1)
           t == [c EXCEPT !.plug = FALSE, !.power = "off"]
<1>1. /\ n \in DisplayState /\ Undisturbed(r, n)
      /\ n.startLeft = r.startLeft /\ n.panel = r.panel
  BY DEF DisplayState, Undisturbed, SameHandshake
<1>2. CloseExternalDisplay(r, f1, f2) \in {c, t}
  BY DEF CloseExternalDisplay
<1> HIDE DEF n
<1>3. /\ c \in DisplayState /\ Undisturbed(r, c)
      /\ ExternalBlank(r) => c.panel = "blank"
  BY <1>1, DisableFacts DEF Undisturbed, SameHandshake, ExternalBlank
<1> HIDE DEF c
<1>4. t \in DisplayState /\ Undisturbed(r, t) /\ t.panel = c.panel
  <2>1. t \in DisplayState
    BY <1>3 DEF DisplayState, PowerMode
  <2>2. Undisturbed(r, t) /\ t.panel = c.panel
    BY <1>3 DEF DisplayState, Undisturbed, SameHandshake
  <2> QED
    BY <2>1, <2>2
<1> QED
  BY <1>2, <1>3, <1>4

\* A virtual display that is created shows nothing new.
LEMMA CreateVirtualFacts ==
    ASSUME NEW r \in DisplayState
    PROVE  CreateVirtualDisplay(r) \in DisplayState /\ CreateVirtualDisplay(r).panel = r.panel
<1> DEFINE j == InitDisplay(r)
           i == [j EXCEPT !.plug = TRUE, !.power = "on"]
           k == [i EXCEPT !.startLeft = VirtStart, !.firstShown = FALSE]
<1>1. CreateVirtualDisplay(r) \in {i, k}
  BY DEF CreateVirtualDisplay
<1>2. j \in DisplayState /\ j.panel = r.panel
  BY InitDisplayFacts DEF SameSwitches
<1> HIDE DEF j
<1>3. i \in DisplayState /\ i.panel = r.panel
  BY <1>2 DEF DisplayState, PowerMode
<1> HIDE DEF i
<1>4. k \in DisplayState /\ k.panel = r.panel
  BY <1>3, ParamAssumption DEF DisplayState
<1> QED
  BY <1>1, <1>3, <1>4

\* Nor does one that is destroyed.
LEMMA DestroyVirtualFacts ==
    ASSUME NEW r \in DisplayState
    PROVE  /\ DestroyVirtualDisplay(r) \in DisplayState
           /\ Undisturbed(r, DestroyVirtualDisplay(r))
BY DEF DestroyVirtualDisplay, DisplayState, PowerMode, Undisturbed, SameHandshake

\* A primary display that is off after setPowerMode() is blank or was off before.
LEMMA SetPowerPrimaryFacts ==
    ASSUME NEW d \in Primaries, NEW r \in DisplayState, NEW mode \in PowerMode,
           NEW f \in BOOLEAN
    PROVE  LET s == SetPowerPrimary(r, mode, f)
           IN  s \in DisplayState /\ PanelStep(d, r, s)
<1>4. d \notin Externals
  BY KindAssumption
<1>1. CASE SetPowerPrimary(r, mode, f) = r
  BY <1>1, <1>4 DEF PanelStep
<1>2. CASE SetPowerPrimary(r, mode, f)
           = [r EXCEPT !.power = "off", !.rs = "none", !.panel = "blank"]
  BY <1>2, <1>4 DEF DisplayState, PowerMode, RenderingState, PanelStep
<1>3. CASE SetPowerPrimary(r, mode, f) = [r EXCEPT !.power = mode] /\ mode # "off"
  BY <1>3, <1>4 DEF DisplayState, PowerMode, PanelStep
<1> QED
  BY <1>1, <1>2, <1>3 DEF SetPowerPrimary

\* setPowerMode() of an external display shows nothing new.
LEMMA SetPowerExternalFacts ==
    ASSUME NEW d \in Externals, NEW r \in DisplayState, NEW mode \in PowerMode,
           NEW f \in BOOLEAN
    PROVE  LET s == SetPowerExternal(r, mode, f)
           IN  s \in DisplayState /\ PanelStep(d, r, s)
<1> DEFINE c == Disable(r, FALSE)
           t == [c EXCEPT !.power = "off", !.skipPresent = TRUE, !.rs = "none"]
           m == IF r.hpd THEN mode ELSE "off"
           e == (r.enabled \/ r.hpd)
           u == [r EXCEPT !.power = m, !.enabled = e]
<1>1. \/ SetPowerExternal(r, mode, f) \in {Disable(r, TRUE), t, r}
      \/ SetPowerExternal(r, mode, f) = u /\ mode # "off"
  BY DEF SetPowerExternal, DisplayState
<1>2. d \notin Primaries
  BY KindAssumption
<1>3. /\ Disable(r, TRUE) \in DisplayState /\ PanelStep(d, r, Disable(r, TRUE))
      /\ c \in DisplayState /\ PanelStep(d, r, c) /\ (ExternalBlank(r) => c.panel = "blank")
  BY <1>2, DisableFacts DEF Undisturbed, PanelStep, ExternalBlank
<1>4. m \in PowerMode /\ e \in BOOLEAN /\ (mode # "off" /\ r.hpd => m # "off")
  BY DEF PowerMode
<1> HIDE DEF c, m, e
<1>5. t \in DisplayState /\ PanelStep(d, r, t)
  <2>1. t \in DisplayState
    BY <1>3, ZenonT(60) DEF DisplayState, PowerMode, RenderingState
  <2>2. t.panel = c.panel /\ t.startLeft = c.startLeft
    BY <1>3 DEF DisplayState
  <2> HIDE DEF t
  <2> QED
    BY <1>2, <1>3, <2>1, <2>2 DEF PanelStep, ExternalBlank
<1>6. ASSUME mode # "off"
      PROVE  u \in DisplayState /\ PanelStep(d, r, u)
  <2>1. u \in DisplayState
    BY <1>4 DEF DisplayState
  <2>2. /\ u.panel = r.panel /\ u.plug = r.plug /\ u.hpd = r.hpd
        /\ u.startLeft = r.startLeft /\ u.power = m
    BY DEF DisplayState
  <2> HIDE DEF u
  <2> QED
    BY <1>2, <1>4, <1>6, <2>1, <2>2 DEF PanelStep, ExternalBlank
<1>7. PanelStep(d, r, r)
  BY <1>2 DEF PanelStep
<1> HIDE DEF t, u
<1> QED
  BY <1>1, <1>3, <1>5, <1>6, <1>7

\* setPowerMode() of the device, the end of the frame it may be included.
LEMMA SetPowerModeFacts ==
    ASSUME NEW Dev \in Displays, NEW g \in BOOLEAN, NEW d \in Display \ Virtuals,
           NEW mode \in PowerMode, NEW f \in BOOLEAN,
           NEW p, p = SetPowerMode(Dev, g, d, mode, f)
    PROVE  /\ p.disp \in Displays /\ p.geo \in BOOLEAN
           /\ \A x \in Display : PanelStep(x, Dev[x], p.disp[x])
           /\ \A x \in Display \ {d} : SameHandshake(Dev[x], p.disp[x])
<1> DEFINE b == [Dev[d] EXCEPT !.pflag = TRUE]
           P == [Dev EXCEPT ![d].pflag = TRUE]
           q == IF mode # "off" THEN [disp |-> Dev, geo |-> g]
                ELSE IF IsLastPresent(d, P) THEN FinishFrame(P)
                ELSE [disp |-> P, geo |-> g]
           r == q.disp[d]
           s == IF d \in Externals THEN SetPowerExternal(r, mode, f)
                ELSE SetPowerPrimary(r, mode, f)
<1>1. p = [disp |-> [q.disp EXCEPT ![d] = s], geo |-> (q.geo \/ PowerGeometry(d, r, mode, f))]
  BY DEF SetPowerMode
<1>2. Dev[d] \in DisplayState
  BY DEF Displays
<1>3. b \in DisplayState /\ SameSwitches(Dev[d], b) /\ SameHandshake(Dev[d], b)
  BY <1>2 DEF DisplayState, SameSwitches, SameHandshake
<1>4. P = [Dev EXCEPT ![d] = b]
  BY DEF Displays
<1> HIDE DEF b, P
<1>5. /\ P \in Displays
      /\ \A x \in Display : SameSwitches(Dev[x], P[x]) /\ SameHandshake(Dev[x], P[x])
  BY <1>3, <1>4 DEF Displays, SameSwitches, SameHandshake
<1>6. q.disp \in {Dev, P, ClearRenderingStateFlags(P)} /\ q.geo \in BOOLEAN
  BY DEF FinishFrame, SkippedThisFrame
<1> HIDE DEF q
<1>7. /\ q.disp \in Displays
      /\ \A x \in Display :
           SameSwitches(Dev[x], q.disp[x]) /\ SameHandshake(Dev[x], q.disp[x])
  BY <1>5, <1>6, ClearFlagsFacts DEF SameSwitches, SameHandshake
<1>8. r \in DisplayState
  BY <1>7 DEF Displays
<1>9. s \in DisplayState /\ PanelStep(d, r, s)
  <2> HIDE DEF r
  <2> QED
    BY <1>8, SetPowerPrimaryFacts, SetPowerExternalFacts DEF Display
<1>10. p.geo \in BOOLEAN
  <2>1. (q.geo \/ PowerGeometry(d, r, mode, f)) \in BOOLEAN
    OBVIOUS
  <2> QED
    BY <1>1, <2>1
<1>11. PanelStep(d, Dev[d], s)
  BY <1>7, <1>9 DEF SameSwitches, PanelStep, MayShow, Suspended, ExternalBlank
<1> HIDE DEF r, s
<1>12. p.disp = [q.disp EXCEPT ![d] = s]
  BY <1>1
<1>13. p.disp \in Displays
  BY <1>7, <1>9, <1>12 DEF Displays
<1>14. \A x \in Display \ {d} :
         PanelStep(x, Dev[x], p.disp[x]) /\ SameHandshake(Dev[x], p.disp[x])
  BY <1>7, <1>12 DEF SameSwitches, PanelStep, Displays, ExternalBlank
<1>15. PanelStep(d, Dev[d], p.disp[d])
  BY <1>7, <1>11, <1>12 DEF Displays
<1> QED
  BY <1>10, <1>13, <1>14, <1>15

-----------------------------------------------------------------------------
(***************************************************************************)
(* Every step keeps the types and is a PanelStep of every display          *)
(***************************************************************************)

\* A display that does not change shows nothing new.
LEMMA PanelStepReflexive ==
    ASSUME NEW d \in Display, NEW r
    PROVE  PanelStep(d, r, r)
BY DEF PanelStep

\* Neither does one that keeps what it shows, its power and its kind.
LEMMA NothingNewIsPanelStep ==
    ASSUME NEW d \in Display, NEW r, NEW s, NothingNew(r, s) \/ SameSwitches(r, s)
    PROVE  PanelStep(d, r, s)
BY DEF PanelStep, NothingNew, SameSwitches, ExternalBlank

\* A step that replaces one display.
LEMMA OneDisplay ==
    ASSUME NEW D \in Displays, NEW d \in Display, NEW s \in DisplayState,
           PanelStep(d, D[d], s)
    PROVE  /\ [D EXCEPT ![d] = s] \in Displays
           /\ \A x \in Display : PanelStep(x, D[x], [D EXCEPT ![d] = s][x])
BY PanelStepReflexive DEF Displays

\* A layer change makes the assignment stale and nothing else.
LEMMA TouchedFacts ==
    ASSUME NEW r \in DisplayState
    PROVE  /\ Touched(r) \in DisplayState
           /\ SameSwitches(r, Touched(r)) /\ SameHandshake(r, Touched(r))
BY DEF Touched, DisplayState, SameSwitches, SameHandshake

\* What a present does to each display is a step of its panel.
LEMMA PresentResultFacts ==
    ASSUME NEW D \in Displays, NEW d \in Display, NEW p, PresentResult(D, d, p)
    PROVE  \A x \in Display : PanelStep(x, D[x], p.disp[x])
<1>1. \A x \in Display \ {d} : PanelStep(x, D[x], p.disp[x])
  BY NothingNewIsPanelStep DEF PresentResult
<1>2. p.disp[d] \in DisplayState
  BY DEF PresentResult, Displays
<1>3. CASE NothingNew(D[d], p.disp[d])
  BY <1>1, <1>3, NothingNewIsPanelStep
<1>4. CASE MayShow(d, D[d])
  <2>1. /\ p.disp[d].power = D[d].power /\ p.disp[d].plug = D[d].plug
        /\ p.disp[d].hpd = D[d].hpd /\ (D[d].startLeft = 0 => p.disp[d].startLeft = 0)
    BY <1>2 DEF PresentResult, NothingNew, DisplayState
  <2>2. PanelStep(d, D[d], p.disp[d])
    BY <1>4, <2>1 DEF PanelStep, MayShow, Suspended, ExternalBlank
  <2> QED
    BY <1>1, <2>2
<1> QED
  BY <1>3, <1>4 DEF PresentResult

StepOK == TypeOK' /\ \A x \in Display : PanelStep(x, disp[x], disp'[x])

\* The presents of the client, tried or after an accept.
LEMMA PresentStep ==
    ASSUME TypeOK, NEW d \in Display, TryPresent(d) \/ Present(d)
    PROVE  StepOK
<1>1. disp \in Displays /\ geo \in BOOLEAN
  BY DEF TypeOK, Displays
<1>2. PICK content \in Content, c \in BOOLEAN, f \in BOOLEAN :
        /\ disp' = PresentDisplay(disp, geo, d, content, c, f).disp
        /\ geo' = PresentDisplay(disp, geo, d, content, c, f).geo
  BY DEF TryPresent, Present, Failures
<1>3. PresentResult(disp, d, PresentDisplay(disp, geo, d, content, c, f))
  BY <1>1, PresentDisplayFacts
<1>4. phase' \in [Display -> Phase]
  BY DEF TryPresent, Present, TypeOK, Phase
<1>5. UNCHANGED <<client, hotplug>>
  BY DEF TryPresent, Present
<1>6. disp' \in Displays /\ geo' \in BOOLEAN
  BY <1>2, <1>3 DEF PresentResult
<1>7. \A x \in Display : PanelStep(x, disp[x], disp'[x])
  BY <1>1, <1>2, <1>3, PresentResultFacts
<1> QED
  BY <1>4, <1>5, <1>6, <1>7 DEF TypeOK, StepOK, Displays

\* The validate of the client.
LEMMA ValidateStep ==
    ASSUME TypeOK, NEW d \in Display, Validate(d)
    PROVE  StepOK
<1>1. disp \in Displays /\ geo \in BOOLEAN
  BY DEF TypeOK, Displays
<1>2. PICK changed \in BOOLEAN, prepareFails \in BOOLEAN, failed \in [Display -> Steps] :
        LET v == ValidateDisplay(disp, geo, d, changed, prepareFails, failed)
        IN  disp' = v.disp /\ geo' = v.geo
  BY DEF Validate, Failures, FailedSteps, Steps
<1> DEFINE v == ValidateDisplay(disp, geo, d, changed, prepareFails, failed)
<1>5. ValidateResult(disp, d, v)
  BY <1>1, ValidateDisplayFacts
<1>3. /\ disp' \in Displays /\ geo' \in BOOLEAN
      /\ \A x \in Display : SameSwitches(disp[x], disp'[x])
  BY <1>2, <1>5 DEF ValidateResult
<1>4. phase' \in [Display -> Phase] /\ UNCHANGED <<client, hotplug>>
  BY DEF Validate, TypeOK, Phase
<1> QED
  BY <1>3, <1>4, NothingNewIsPanelStep DEF TypeOK, StepOK, Displays

\* The power mode changes of the client.
LEMMA PowerStep ==
    ASSUME TypeOK, NEW d \in Display, NEW mode \in PowerMode, ClientSetPower(d, mode)
    PROVE  StepOK
<1>1. disp \in Displays /\ geo \in BOOLEAN /\ d \in Display \ Virtuals
  BY DEF TypeOK, Displays, ClientSetPower
<1>2. PICK f \in BOOLEAN :
        /\ disp' = SetPowerMode(disp, geo, d, mode, f).disp
        /\ geo' = SetPowerMode(disp, geo, d, mode, f).geo
  BY DEF ClientSetPower, Failures
<1>3. /\ disp' \in Displays /\ geo' \in BOOLEAN
      /\ \A x \in Display : PanelStep(x, disp[x], disp'[x])
  BY <1>1, <1>2, SetPowerModeFacts
<1>4. PICK p \in Phase : phase' = [phase EXCEPT ![d] = p]
  BY DEF ClientSetPower, TypeOK, Phase
<1>5. client' \in [Display -> {"absent", "off", "on"}] /\ hotplug' = hotplug
  BY DEF ClientSetPower, TypeOK
<1> QED
  BY <1>3, <1>4, <1>5 DEF TypeOK, StepOK, Displays

\* The accept of the client.
LEMMA AcceptStep ==
    ASSUME TypeOK, NEW d \in Display, Accept(d)
    PROVE  StepOK
<1>1. disp \in Displays /\ disp[d] \in DisplayState
  BY DEF TypeOK, Displays
<1> DEFINE s == AcceptDisplayChanges(disp[d])
<1>2. s \in DisplayState /\ PanelStep(d, disp[d], s)
  BY <1>1, AcceptFacts, NothingNewIsPanelStep
<1>3. disp' = [disp EXCEPT ![d] = s]
  BY DEF Accept
<1> HIDE DEF s
<1>4. disp' \in Displays /\ \A x \in Display : PanelStep(x, disp[x], disp'[x])
  BY <1>1, <1>2, <1>3, OneDisplay
<1>5. phase' \in [Display -> Phase] /\ UNCHANGED <<geo, client, hotplug>>
  BY DEF Accept, TypeOK, Phase
<1> QED
  BY <1>4, <1>5 DEF TypeOK, StepOK, Displays

\* The layer operations of the client.
LEMMA LayerStep ==
    ASSUME TypeOK, NEW d \in Display,
           CreateLayer(d) \/ DestroyLayer(d) \/ SetLayerDisplayFrame(d) \/ SetLayerGeometry(d)
    PROVE  StepOK
<1>1. disp \in Displays /\ disp[d] \in DisplayState
  BY DEF TypeOK, Displays
<1> DEFINE t == Touched(disp[d])
           c == ClearRenderingStateFlags(disp)
           u == Touched(c[d])
<1>2. t \in DisplayState /\ SameSwitches(disp[d], t)
  BY <1>1, TouchedFacts
<1>3. c \in Displays /\ \A x \in Display : PanelStep(x, disp[x], c[x])
  BY <1>1, ClearFlagsFacts, NothingNewIsPanelStep
<1>4. u \in DisplayState /\ SameSwitches(disp[d], u)
  BY <1>1, <1>3, ClearFlagsFacts, TouchedFacts DEF Displays, SameSwitches
<1>5. geo' \in BOOLEAN /\ UNCHANGED <<phase, client, hotplug>>
  BY DEF CreateLayer, DestroyLayer, SetLayerDisplayFrame, SetLayerGeometry
<1>6. \/ \E b \in BOOLEAN : disp' = [disp EXCEPT ![d] = [t EXCEPT !.layers = b]]
      \/ disp' = [c EXCEPT ![d] = u]
      \/ disp' = [c EXCEPT ![d] = c[d]]
      \/ disp' = [disp EXCEPT ![d] = t]
  <2>1. CASE SetLayerDisplayFrame(d)
    <3>1. PICK moved \in BOOLEAN : disp' = [c EXCEPT ![d] = IF moved THEN Touched(@) ELSE @]
      BY <2>1 DEF SetLayerDisplayFrame
    <3> QED
      BY <1>3, <3>1 DEF Displays
  <2> QED
    BY <2>1 DEF CreateLayer, DestroyLayer, SetLayerGeometry
<1> HIDE DEF t, c, u
<1>7. disp' \in Displays /\ \A x \in Display : PanelStep(x, disp[x], disp'[x])
  <2>1. ASSUME NEW b \in BOOLEAN, disp' = [disp EXCEPT ![d] = [t EXCEPT !.layers = b]]
        PROVE  disp' \in Displays /\ \A x \in Display : PanelStep(x, disp[x], disp'[x])
    <3> DEFINE s == [t EXCEPT !.layers = b]
    <3>1. /\ s \in DisplayState /\ s.panel = t.panel /\ s.power = t.power
          /\ s.plug = t.plug /\ s.hpd = t.hpd /\ s.startLeft = t.startLeft
      BY <1>2 DEF DisplayState
    <3>2. disp' = [disp EXCEPT ![d] = s]
      BY <2>1
    <3> HIDE DEF s
    <3>3. PanelStep(d, disp[d], s)
      BY <1>2, <3>1 DEF PanelStep, SameSwitches, ExternalBlank
    <3> QED
      BY <1>1, <3>1, <3>2, <3>3, OneDisplay
  <2>2. CASE disp' = [c EXCEPT ![d] = u]
    <3>1. PanelStep(d, disp[d], u)
      BY <1>4, NothingNewIsPanelStep
    <3> QED
      BY <1>3, <1>4, <2>2, <3>1 DEF Displays
  <2>3. CASE disp' = [disp EXCEPT ![d] = t]
    BY <1>1, <1>2, <2>3, NothingNewIsPanelStep, OneDisplay
  <2>4. CASE disp' = [c EXCEPT ![d] = c[d]]
    BY <1>3, <2>4 DEF Displays
  <2> QED
    BY <1>6, <2>1, <2>2, <2>3, <2>4
<1> QED
  BY <1>5, <1>7 DEF TypeOK, StepOK, Displays

\* The virtual displays and the WFD service.
LEMMA VirtualStep ==
    ASSUME TypeOK, NEW d \in Display,
           ClientCreateVirtual(d) \/ ClientDestroyVirtual(d) \/ SetWFDMode(d)
    PROVE  StepOK
<1>1. /\ disp \in Displays /\ disp[d] \in DisplayState
      /\ d \in Virtuals /\ d \notin Primaries /\ d \notin Externals
  BY KindAssumption
     DEF TypeOK, Displays, ClientCreateVirtual, ClientDestroyVirtual, SetWFDMode
<1> DEFINE c == CreateVirtualDisplay(disp[d])
           k == DestroyVirtualDisplay(disp[d])
           e == [k EXCEPT !.layers = FALSE]
           w == [disp[d] EXCEPT !.wfd = ~@]
<1>2. c \in DisplayState /\ PanelStep(d, disp[d], c)
  BY <1>1, CreateVirtualFacts DEF PanelStep
<1>3. k \in DisplayState /\ k.panel \in {"blank", disp[d].panel}
  BY <1>1, DestroyVirtualFacts DEF Undisturbed
<1>4. w \in DisplayState /\ PanelStep(d, disp[d], w)
  BY <1>1 DEF DisplayState, PanelStep
<1>5. \E s \in {c, e, w} : disp' = [disp EXCEPT ![d] = s]
  BY <1>1 DEF ClientCreateVirtual, ClientDestroyVirtual, SetWFDMode, TypeOK
<1> HIDE DEF c, k, w
<1>6. e \in DisplayState /\ PanelStep(d, disp[d], e)
  BY <1>1, <1>3 DEF DisplayState, PanelStep
<1> HIDE DEF e
<1>7. disp' \in Displays /\ \A x \in Display : PanelStep(x, disp[x], disp'[x])
  <2>1. PICK s : s \in {c, e, w} /\ disp' = [disp EXCEPT ![d] = s]
    BY <1>5
  <2>2. s \in DisplayState /\ PanelStep(d, disp[d], s)
    BY <1>2, <1>4, <1>6, <2>1
  <2> QED
    BY <1>1, <2>1, <2>2, OneDisplay
<1>8. /\ geo' = geo /\ hotplug' = hotplug
      /\ phase' \in [Display -> Phase]
      /\ client' \in [Display -> {"absent", "off", "on"}]
  BY DEF ClientCreateVirtual, ClientDestroyVirtual, SetWFDMode, TypeOK, Phase
<1> QED
  BY <1>7, <1>8 DEF TypeOK, StepOK, Displays

\* The first critical section of the event thread keeps every handshake.
LEMMA HotplugStep ==
    ASSUME TypeOK, NEW d \in Display, HandleHotplug(d)
    PROVE  StepOK /\ \A x \in Display : SameHandshake(disp[x], disp'[x])
<1>1. disp \in Displays /\ disp[d] \in DisplayState /\ d \in Externals /\ d \notin Primaries
  BY KindAssumption DEF TypeOK, Displays, HandleHotplug
<1>2. PICK f1 \in BOOLEAN, f2 \in BOOLEAN :
        disp' = [disp EXCEPT ![d] = IF @.hpd THEN CloseExternalDisplay(@, f1, f2)
                                    ELSE OpenExternalDisplay(@, f1)]
  BY DEF HandleHotplug, Failures
<1> DEFINE s == IF disp[d].hpd THEN CloseExternalDisplay(disp[d], f1, f2)
                ELSE OpenExternalDisplay(disp[d], f1)
<1>3. /\ s \in DisplayState /\ Undisturbed(disp[d], s)
      /\ ExternalBlank(disp[d]) => s.panel = "blank"
  BY <1>1, OpenFacts, CloseFacts DEF ExternalBlank
<1>4. disp' = [disp EXCEPT ![d] = s]
  BY <1>1, <1>2 DEF Displays
<1> HIDE DEF s
<1>5. PanelStep(d, disp[d], s)
  BY <1>1, <1>3 DEF Undisturbed, PanelStep, ExternalBlank
<1>6. disp' \in Displays /\ \A x \in Display : PanelStep(x, disp[x], disp'[x])
  BY <1>1, <1>3, <1>4, <1>5, OneDisplay
<1>7. \A x \in Display : SameHandshake(disp[x], disp'[x])
  BY <1>1, <1>3, <1>4 DEF Undisturbed, SameHandshake, Displays
<1>8. hotplug' \in [Externals -> HotplugState] /\ UNCHANGED <<geo, phase, client>>
  BY DEF HandleHotplug, TypeOK, HotplugState
<1> QED
  BY <1>6, <1>7, <1>8 DEF TypeOK, StepOK, Displays

\* So does the second one.
LEMMA HotplugVirtualStep ==
    ASSUME TypeOK, NEW d \in Display, HandleHotplugVirtual(d)
    PROVE  StepOK /\ \A x \in Display : SameHandshake(disp[x], disp'[x])
<1> DEFINE plugged == hotplug[d] = "plugged"
           e(x) == [disp[x] EXCEPT !.extPlug = plugged]
           s(x) == IF x \in Virtuals /\ UseDpu
                   THEN IF plugged /\ e(x).plug THEN DestroyVirtualDisplay(e(x)) ELSE e(x)
                   ELSE disp[x]
<1>1. disp' = [x \in Display |-> s(x)]
  BY DEF HandleHotplugVirtual
<1>2. ASSUME NEW x \in Display
      PROVE  s(x) \in DisplayState /\ PanelStep(x, disp[x], s(x))
             /\ SameHandshake(disp[x], s(x))
  <2>1. disp[x] \in DisplayState /\ plugged \in BOOLEAN
    BY DEF TypeOK
  <2>2. e(x) \in DisplayState /\ Undisturbed(disp[x], e(x))
    <3> HIDE DEF plugged
    <3> QED
      BY <2>1 DEF DisplayState, Undisturbed, SameHandshake
  <2>3. s(x) \in {disp[x], e(x), DestroyVirtualDisplay(e(x))}
        /\ (x \notin Virtuals => s(x) = disp[x])
    OBVIOUS
  <2> HIDE DEF e, s
  <2>4. s(x) \in DisplayState /\ Undisturbed(disp[x], s(x))
    BY <2>1, <2>2, <2>3, DestroyVirtualFacts DEF Undisturbed, SameHandshake
  <2> QED
    BY <2>3, <2>4, KindAssumption, PanelStepReflexive DEF Undisturbed, PanelStep
<1> HIDE DEF s
<1>3. disp' \in Displays /\ \A x \in Display : PanelStep(x, disp[x], disp'[x])
  BY <1>1, <1>2 DEF Displays
<1>4. \A x \in Display : SameHandshake(disp[x], disp'[x])
  BY <1>1, <1>2
<1>5. geo' \in BOOLEAN
  <2>1. geo' = (geo \/ (UseDpu /\ \E x \in Virtuals : disp[x].plug))
    BY DEF HandleHotplugVirtual
  <2> QED
    BY <2>1
<1>6. hotplug' \in [Externals -> HotplugState] /\ UNCHANGED <<phase, client>>
  BY DEF HandleHotplugVirtual, TypeOK, HotplugState
<1> QED
  BY <1>3, <1>4, <1>5, <1>6 DEF TypeOK, StepOK, Displays

\* Every step keeps the types and is a step of every panel.
LEMMA StepFacts ==
    ASSUME TypeOK, Next
    PROVE  StepOK
<1>1. CASE UNCHANGED <<disp, geo>> /\ phase' \in [Display -> Phase]
           /\ client' \in [Display -> {"absent", "off", "on"}]
           /\ hotplug' \in [Externals -> HotplugState]
  BY <1>1, PanelStepReflexive DEF TypeOK, StepOK
<1>2. CASE BeginRefresh
  BY <1>1, <1>2 DEF BeginRefresh, TypeOK, Phase
<1>3. ASSUME NEW d \in Display, ClientHotplug(d)
      PROVE  StepOK
  BY <1>1, <1>3 DEF ClientHotplug, TypeOK, Phase, HotplugState
<1>4. CASE ClientNext
  BY <1>2, <1>3, <1>4, PresentStep, ValidateStep, AcceptStep, PowerStep, LayerStep,
     VirtualStep DEF ClientNext
<1> QED
  BY <1>4, HotplugStep, HotplugVirtualStep, VirtualStep DEF Next

\* The initial state is within its types.
LEMMA InitTypes == Init => TypeOK
<1> SUFFICES ASSUME Init PROVE TypeOK
  OBVIOUS
<1>1. \A d \in Display : InitDisplayState(d) \in DisplayState
  BY ParamAssumption DEF InitDisplayState, DisplayState, PowerMode, RenderingState
<1> QED
  BY <1>1 DEF Init, TypeOK, Phase, HotplugState

\* The state of the displays, the device and the client stays within its types.
THEOREM Typing == Spec => []TypeOK
<1>1. TypeOK /\ [Next]_vars => TypeOK'
  <2>1. ASSUME TypeOK, Next PROVE TypeOK'
    BY <2>1, StepFacts DEF StepOK
  <2>2. ASSUME TypeOK, UNCHANGED vars PROVE TypeOK'
    BY <2>2 DEF TypeOK, vars
  <2> QED
    BY <2>1, <2>2
<1> QED
  BY InitTypes, <1>1, PTL DEF Spec

-----------------------------------------------------------------------------
(***************************************************************************)
(* A frame is shown only where it may be                                   *)
(***************************************************************************)

\* Wherever a hotplug, a power mode or a failure falls between the validate and
\* the present of a display, presentDisplay() commits a frame only to a display
\* that is plugged, neither off nor suspended, and has layers.
THEOREM FramesOnlyOnActiveDisplays == Spec => ShowsOnlyWhenActive
<1> DEFINE Active == \A d \in Display : Shows(d) =>
                       /\ disp[d].plug /\ disp[d].power \notin {"off", "suspend"}
                       /\ disp[d].layers \/ d \in Virtuals
<1>1. TypeOK /\ [Next]_vars => [Active]_vars
  <2>1. ASSUME TypeOK, Next PROVE Active
    <3>1. \A x \in Display : PanelStep(x, disp[x], disp'[x])
      BY <2>1, StepFacts DEF StepOK
    <3> QED
      BY <3>1 DEF PanelStep, MayShow, Suspended, Shows
  <2> QED
    BY <2>1
<1> QED
  BY Typing, <1>1, PTL DEF Spec, ShowsOnlyWhenActive

\* A primary display that is powered off shows nothing, whatever is presented,
\* fails or is powered in whatever order.
THEOREM PrimariesOffAreBlank == Spec => []PrimaryOffIsBlank
<1>1. Init => PrimaryOffIsBlank
  BY DEF Init, InitDisplayState, PrimaryOffIsBlank, Display
<1>2. TypeOK /\ PrimaryOffIsBlank /\ [Next]_vars => PrimaryOffIsBlank'
  <2>1. ASSUME TypeOK, PrimaryOffIsBlank, Next PROVE PrimaryOffIsBlank'
    <3>1. \A x \in Display : PanelStep(x, disp[x], disp'[x])
      BY <2>1, StepFacts DEF StepOK
    <3> QED
      BY <2>1, <3>1 DEF PanelStep, PrimaryOffIsBlank, Display
  <2>2. ASSUME PrimaryOffIsBlank, UNCHANGED vars PROVE PrimaryOffIsBlank'
    BY <2>2 DEF PrimaryOffIsBlank, vars
  <2> QED
    BY <2>1, <2>2
<1> QED
  BY Typing, <1>1, <1>2, PTL DEF Spec

-----------------------------------------------------------------------------
(***************************************************************************)
(* The validate, accept, present handshake                                 *)
(***************************************************************************)

\* The state of the display object agrees with where the client is.
HandshakeState(p, r) ==
    /\ p = "validated" => r.rs = "validated" /\ Ready(r)
    /\ p = "accepted" => r.rs = "accepted" /\ Ready(r)
    /\ p # "rejected"

HandshakeInv == \A d \in Display : HandshakeState(phase[d], disp[d])

\* A client that composes one display after the other disturbs a display it
\* has validated by nothing but that display's own accept and present.
LEMMA ClientStepKeepsHandshake ==
    ASSUME OneByOne, TypeOK, HandshakeInv, ClientNext
    PROVE  HandshakeInv'
<1>1. disp \in Displays /\ geo \in BOOLEAN /\ phase \in [Display -> Phase]
  BY DEF TypeOK, Displays
<1>2. CASE BeginRefresh
  BY <1>1, <1>2 DEF BeginRefresh, HandshakeInv, HandshakeState
<1>3. ASSUME NEW d \in Display, Turn(d), NEW p \in Phase,
             phase' = [phase EXCEPT ![d] = p], HandshakeState(p, disp'[d])
      PROVE  HandshakeInv'
  <2>1. ASSUME NEW x \in Display \ {d} PROVE HandshakeState(phase'[x], disp'[x])
    BY <1>1, <1>3 DEF HandshakeInv, HandshakeState, Turn, InFlight, Phase
  <2> QED
    BY <1>1, <1>3, <2>1 DEF HandshakeInv
<1>4. ASSUME NEW p \in {"idle", "todo", "mustValidate"}, NEW r
      PROVE  p \in Phase /\ HandshakeState(p, r)
  BY DEF HandshakeState, Phase
<1>5. ASSUME NEW d \in Display, TryPresent(d) PROVE HandshakeInv'
  <2>1. PICK p \in {"idle", "mustValidate"} : phase' = [phase EXCEPT ![d] = p]
    BY <1>5 DEF TryPresent
  <2> QED
    BY <1>3, <1>4, <1>5, <2>1 DEF TryPresent
<1>6. ASSUME NEW d \in Display, Validate(d) PROVE HandshakeInv'
  <2>1. \E changed \in BOOLEAN, prepareFails \in BOOLEAN, failed \in [Display -> Steps] : \E v :
          /\ v = ValidateDisplay(disp, geo, d, changed, prepareFails, failed)
          /\ disp' = v.disp
          /\ phase' = [phase EXCEPT ![d] = IF v.ret = "NONE" THEN "validated" ELSE "idle"]
    <3>1. /\ Failures("assign") \subseteq BOOLEAN
          /\ FailedSteps \subseteq [Display -> Steps]
      BY DEF Failures, FailedSteps, Steps
    <3> QED
      BY <1>6, <3>1 DEF Validate
  <2>2. PICK changed \in BOOLEAN, prepareFails \in BOOLEAN, failed \in [Display -> Steps] : \E v :
          /\ v = ValidateDisplay(disp, geo, d, changed, prepareFails, failed)
          /\ disp' = v.disp
          /\ phase' = [phase EXCEPT ![d] = IF v.ret = "NONE" THEN "validated" ELSE "idle"]
    BY <2>1
  <2>3. PICK v :
          /\ v = ValidateDisplay(disp, geo, d, changed, prepareFails, failed)
          /\ disp' = v.disp
          /\ phase' = [phase EXCEPT ![d] = IF v.ret = "NONE" THEN "validated" ELSE "idle"]
    BY <2>2
  <2>4. ValidateResult(disp, d, v)
    BY <1>1, <2>3, ValidateDisplayFacts
  <2>5. PICK p \in Phase : phase' = [phase EXCEPT ![d] = p] /\ HandshakeState(p, disp'[d])
    BY <2>3, <2>4 DEF HandshakeState, Phase, ValidateResult
  <2> QED
    BY <1>3, <1>6, <2>5 DEF Validate
<1>7. ASSUME NEW d \in Display, Accept(d) PROVE HandshakeInv'
  <2>1. disp[d] \in DisplayState /\ disp[d].rs = "validated" /\ Ready(disp[d])
    BY <1>1, <1>7 DEF Accept, HandshakeInv, HandshakeState, Displays
  <2>2. disp'[d] = AcceptDisplayChanges(disp[d]) /\ phase' = [phase EXCEPT ![d] = "accepted"]
    BY <1>1, <1>7, <2>1 DEF Accept, Displays
  <2>3. HandshakeState("accepted", disp'[d])
    BY <2>1, <2>2, AcceptFacts DEF HandshakeState, Ready
  <2> QED
    BY <1>3, <1>7, <2>2, <2>3 DEF Accept, Phase
<1>8. ASSUME NEW d \in Display, Present(d) PROVE HandshakeInv'
  <2>1. PICK content \in Content, c \in BOOLEAN, f \in BOOLEAN :
          phase' = [phase EXCEPT ![d] =
                      IF PresentDisplay(disp, geo, d, content, c, f).ret = "NOT_VALIDATED"
                      THEN "rejected" ELSE "idle"]
    BY <1>8 DEF Present, Failures
  <2>2. disp[d].rs = "accepted" /\ Ready(disp[d])
    BY <1>8 DEF Present, HandshakeInv, HandshakeState
  <2>3. PresentDisplay(disp, geo, d, content, c, f).ret # "NOT_VALIDATED"
    BY <1>1, <2>2, PresentDisplayFacts
  <2> QED
    BY <1>3, <1>4, <1>8, <2>1, <2>3 DEF Present
<1>9. ASSUME NEW d \in Display, Between(d), NEW p \in {"idle", "todo", phase[d]},
             phase' = [phase EXCEPT ![d] = p]
      PROVE  HandshakeInv'
  <2>1. p \in {"idle", "todo", "mustValidate"}
    BY <1>1, <1>9 DEF Between, InFlight, Phase, HandshakeInv, HandshakeState
  <2> QED
    BY <1>3, <1>4, <1>9, <2>1 DEF Between
<1>10. ASSUME NEW d \in Display, NEW mode \in PowerMode, ClientSetPower(d, mode)
       PROVE  HandshakeInv'
  <2>1. PICK p \in {"idle", "todo", phase[d]} : phase' = [phase EXCEPT ![d] = p]
    BY <1>10 DEF ClientSetPower
  <2> QED
    BY <1>9, <1>10, <2>1 DEF ClientSetPower
<1>11. ASSUME NEW d \in Display,
              ClientHotplug(d) \/ ClientCreateVirtual(d) \/ ClientDestroyVirtual(d)
       PROVE  HandshakeInv'
  <2>1. PICK p \in {"idle", phase[d]} : phase' = [phase EXCEPT ![d] = p]
    BY <1>1, <1>11 DEF ClientHotplug, ClientCreateVirtual, ClientDestroyVirtual
  <2> QED
    BY <1>9, <1>11, <2>1 DEF ClientHotplug, ClientCreateVirtual, ClientDestroyVirtual
<1>12. ASSUME NEW d \in Display,
              CreateLayer(d) \/ DestroyLayer(d) \/ SetLayerDisplayFrame(d) \/ SetLayerGeometry(d)
       PROVE  HandshakeInv'
  <2>1. Between(d)
    BY <1>12 DEF CreateLayer, DestroyLayer, SetLayerDisplayFrame, SetLayerGeometry, MayTouch
  <2>2. phase' = [phase EXCEPT ![d] = phase[d]]
    BY <1>1, <1>12 DEF CreateLayer, DestroyLayer, SetLayerDisplayFrame, SetLayerGeometry
  <2> QED
    BY <1>9, <2>1, <2>2
<1> QED
  BY <1>2, <1>5, <1>6, <1>7, <1>8, <1>10, <1>11, <1>12 DEF ClientNext

\* When the client composes one display after the other, a validated display is
\* accepted and presented without being asked to validate again, whatever the
\* event thread does to the displays in between.
THEOREM HandshakeIsHonoured ==
    ASSUME OneByOne
    PROVE  Spec => []HandshakeHonoured
<1>1. Init => HandshakeInv
  BY DEF Init, HandshakeInv, HandshakeState
<1>2. TypeOK /\ HandshakeInv /\ [Next]_vars => HandshakeInv'
  <2>1. ASSUME TypeOK, HandshakeInv, NEW d \in Display,
               HandleHotplug(d) \/ HandleHotplugVirtual(d)
        PROVE  HandshakeInv'
    <3>1. phase' = phase
      BY <2>1 DEF HandleHotplug, HandleHotplugVirtual
    <3>2. \A x \in Display : SameHandshake(disp[x], disp'[x])
      BY <2>1, HotplugStep, HotplugVirtualStep
    <3> QED
      BY <2>1, <3>1, <3>2 DEF HandshakeInv, HandshakeState, SameHandshake, Ready
  <2>2. ASSUME TypeOK, HandshakeInv, NEW d \in Display, SetWFDMode(d)
        PROVE  HandshakeInv'
    <3>1. phase' = phase /\ \A x \in Display : SameHandshake(disp[x], disp'[x])
      BY <2>2 DEF SetWFDMode, SameHandshake, TypeOK, DisplayState
    <3> QED
      BY <2>2, <3>1 DEF HandshakeInv, HandshakeState, SameHandshake, Ready
  <2>3. ASSUME HandshakeInv, UNCHANGED vars PROVE HandshakeInv'
    BY <2>3 DEF HandshakeInv, HandshakeState, Ready, vars
  <2> QED
    BY <2>1, <2>2, <2>3, ClientStepKeepsHandshake DEF Next
<1>3. HandshakeInv => HandshakeHonoured
  BY DEF HandshakeInv, HandshakeState, HandshakeHonoured
<1> QED
  BY Typing, <1>1, <1>2, <1>3, PTL DEF Spec

-----------------------------------------------------------------------------
(***************************************************************************)
(* A quiet device: frames show fresh assignments                           *)
(***************************************************************************)

\* Events come between refreshes, nothing fails, displays stay on, and there is
\* no virtual display.
Quiet ==
    /\ Virtuals = {} /\ MidRefresh = {} /\ MayFail = {}
    /\ PrimaryModes \subseteq {"on"} /\ ExternalModes \subseteq {"on"}

\* The loops of the device look at the display.
Lit(r) == r.plug /\ r.power # "off"

\* What a quiet device never does to a display.
Steady(x, r) ==
    /\ r.power \in {"on", "off"} /\ ~r.skipPresent
    /\ x \in Primaries => r.plug /\ ~r.skipFrame
    /\ x \in Externals => r.plug = r.hpd /\ (~r.hpd => r.power = "off")

\* A lit display is known to the client, which has acted on every unplug.
Known(x) ==
    /\ Lit(disp[x]) => client[x] = "on"
    /\ x \in Externals =>
         /\ disp[x].hpd =>
              hotplug[x] = "idle" \/ (hotplug[x] # "unplugged" /\ client[x] = "absent")
         /\ ~disp[x].hpd =>
              hotplug[x] # "plugged" /\ (hotplug[x] = "idle" => client[x] = "absent")

\* The rendering state agrees with where the client is with the display.
Waiting(p, r) ==
    /\ p # "rejected"
    /\ p \notin {"validated", "accepted"} => ~r.hrs /\ r.rs # "accepted"
    /\ p = "validated" => r.rs = "validated"
    /\ p = "accepted" => r.rs = "accepted"
    /\ Lit(r) /\ p \in {"validated", "accepted"} => r.vflag

\* A display that is validated in this frame has a fresh assignment or is
\* skipped; before that, the geometry flag remembers what is not fresh.
Assigned(x, r, g) ==
    /\ ~Lit(r) => ~r.vflag
    /\ Lit(r) /\ r.vflag => r.asg = "fresh" \/ r.skipFrame
    /\ Lit(r) /\ r.vflag /\ x \in Externals /\ ~r.skipFrame => r.startLeft = 0
    /\ Lit(r) /\ ~r.vflag => r.asg = "fresh" \/ g

\* The lit displays are validated together.
Uniform(D) == \A x, y \in Display : Lit(D[x]) /\ Lit(D[y]) => (D[x].vflag <=> D[y].vflag)

\* The frame ends when the client is done with the lit displays; until then
\* those it is done with have presented.
Progress(D, p) ==
    /\ (\A x \in Display : Lit(D[x]) => p[x] = "idle") => FlagsCleared(D)
    /\ ~(\A x \in Display : Lit(D[x]) => p[x] = "idle") =>
         \A x \in Display : Lit(D[x]) => (D[x].pflag <=> p[x] = "idle")

Shown(r) == r.panel \in {"blank", "fresh"}

QuietInv ==
    /\ \A x \in Display :
         /\ Steady(x, disp[x]) /\ Known(x) /\ Waiting(phase[x], disp[x])
         /\ Assigned(x, disp[x], geo) /\ Shown(disp[x])
    /\ Uniform(disp) /\ Progress(disp, phase)

\* What presentDisplay() leaves of any display.
Kept(r, s) ==
    /\ s.plug = r.plug /\ s.hpd = r.hpd /\ s.power = r.power
    /\ s.skipPresent = r.skipPresent /\ s.skipFrame = r.skipFrame
    /\ s.startLeft = r.startLeft

\* Beyond that only the flags of the frame changed.
Untouched(r, s) ==
    /\ Kept(r, s)
    /\ s.rs = r.rs /\ s.hrs = r.hrs /\ s.asg = r.asg /\ s.panel = r.panel

SameFlags(r, s) == s.vflag = r.vflag /\ s.pflag = r.pflag

LEMMA QuietInactive ==
    ASSUME Quiet, NEW x \in Display, NEW r \in DisplayState
    PROVE  Inactive(x, r) <=> ~Lit(r)
BY DEF Quiet, Inactive, Lit

\* The end of a present of d, which is the end of the frame when every other
\* lit display has presented.
LEMMA QuietPostPresent ==
    ASSUME Quiet, NEW N \in Displays, NEW g \in BOOLEAN, NEW d \in Display,
           NEW f \in BOOLEAN, ~f, NEW p, p = PresentPostProcessing(N, g, d, f)
    PROVE  /\ \A x \in Display \ {d} : Untouched(N[x], p.disp[x])
           /\ Kept(N[d], p.disp[d]) /\ p.disp[d].rs = "presented"
           /\ p.disp[d].hrs = N[d].hrs
           /\ p.disp[d].asg = N[d].asg /\ p.disp[d].panel = N[d].panel
           /\ \/ /\ \E x \in Display \ {d} : Lit(N[x]) /\ ~N[x].pflag
                 /\ p.geo = g
                 /\ \A x \in Display \ {d} : SameFlags(N[x], p.disp[x])
                 /\ p.disp[d].vflag = N[d].vflag /\ p.disp[d].pflag
              \/ /\ \A x \in Display \ {d} : Lit(N[x]) => N[x].pflag
                 /\ FlagsCleared(p.disp)
                 /\ p.geo <=> \E x \in Display :
                      Lit(N[x]) /\ (N[x].skipFrame \/ N[x].skipPresent \/ N[x].skipVP)
<1> DEFINE r == [N[d] EXCEPT !.rs = "presented", !.pflag = TRUE]
           P == [N EXCEPT ![d] = r]
<1>1. N[d] \in DisplayState
  BY DEF Displays
<1>2. /\ r \in DisplayState
      /\ Kept(N[d], r) /\ r.rs = "presented" /\ r.hrs = N[d].hrs
      /\ r.asg = N[d].asg /\ r.panel = N[d].panel /\ r.vflag = N[d].vflag /\ r.pflag
      /\ r.skipVP = N[d].skipVP
  BY <1>1 DEF DisplayState, RenderingState, Kept
<1>3. p = IF IsLastPresent(d, P) THEN FinishFrame(P) ELSE [disp |-> P, geo |-> (g \/ f)]
  BY DEF PresentPostProcessing
<1> HIDE DEF r
<1>4. P \in Displays /\ P[d] = r /\ \A x \in Display \ {d} : P[x] = N[x]
  BY <1>2 DEF Displays
<1> HIDE DEF P
<1>5. IsLastPresent(d, P) <=> \A x \in Display \ {d} : Lit(N[x]) => N[x].pflag
  BY <1>4, QuietInactive DEF IsLastPresent, Displays
<1>6. CASE IsLastPresent(d, P)
  <2>1. p.disp = ClearRenderingStateFlags(P) /\ p.geo = SkippedThisFrame(P)
    BY <1>3, <1>6 DEF FinishFrame
  <2>2. \A x \in Display : Untouched(P[x], p.disp[x]) /\ ~p.disp[x].vflag /\ ~p.disp[x].pflag
    <3> SUFFICES ASSUME NEW x \in Display
                 PROVE  Untouched(P[x], p.disp[x]) /\ ~p.disp[x].vflag /\ ~p.disp[x].pflag
      OBVIOUS
    <3>1. p.disp[x] = [P[x] EXCEPT !.vflag = FALSE, !.pflag = FALSE] /\ P[x] \in DisplayState
      BY <1>4, <2>1 DEF ClearRenderingStateFlags, Displays
    <3> QED
      BY <3>1 DEF Untouched, Kept, DisplayState
  <2>3. SkippedThisFrame(P) <=> \E x \in Display :
          Lit(P[x]) /\ (P[x].skipFrame \/ P[x].skipPresent \/ P[x].skipVP)
    BY <1>4, QuietInactive DEF SkippedThisFrame, Displays
  <2>4. \A x \in Display : /\ Lit(P[x]) = Lit(N[x])
                           /\ P[x].skipFrame = N[x].skipFrame
                           /\ P[x].skipPresent = N[x].skipPresent
                           /\ P[x].skipVP = N[x].skipVP
    BY <1>2, <1>4 DEF Lit, Kept
  <2>5. p.geo <=> \E x \in Display :
          Lit(N[x]) /\ (N[x].skipFrame \/ N[x].skipPresent \/ N[x].skipVP)
    BY <2>1, <2>3, <2>4
  <2>6. \A x \in Display \ {d} : Untouched(N[x], p.disp[x])
    BY <1>4, <2>2
  <2>7. /\ Kept(N[d], p.disp[d]) /\ p.disp[d].rs = "presented"
        /\ p.disp[d].hrs = N[d].hrs
        /\ p.disp[d].asg = N[d].asg /\ p.disp[d].panel = N[d].panel
    BY <1>2, <1>4, <2>2 DEF Untouched, Kept
  <2>8. FlagsCleared(p.disp)
    BY <2>2 DEF FlagsCleared
  <2> QED
    BY <1>5, <1>6, <2>5, <2>6, <2>7, <2>8
<1>7. CASE ~IsLastPresent(d, P)
  <2>9. p = [disp |-> P, geo |-> g]
    <3>1. (g \/ f) = g
      OBVIOUS
    <3> QED
      BY <1>3, <1>7, <3>1, Zenon
  <2>1. p.disp = P /\ p.geo = g
    BY <2>9
  <2> QED
    BY <1>2, <1>4, <1>5, <1>7, <2>1 DEF Untouched, Kept, SameFlags
<1> QED
  BY <1>6, <1>7

\* presentDisplay() of a lit display shows its assignment, or nothing new and
\* forgets it when start frames are skipped.
LEMMA QuietDisplayPresent ==
    ASSUME Quiet, NEW d \in Display, NEW r \in DisplayState, Steady(d, r), Lit(r),
           NEW n, n = DisplayPresent(d, r)
    PROVE  /\ n \in DisplayState /\ Kept(r, n) /\ SameFlags(r, n)
           /\ n.hrs = r.hrs /\ n.skipVP = r.skipVP
           /\ r.skipFrame => n.panel = r.panel
           /\ ~r.skipFrame => n.asg = r.asg /\ n.panel \in {"blank", r.asg}
<1>1. CASE r.skipFrame
  <2>1. d \in Externals
    BY <1>1 DEF Steady, Display, Quiet
  <2>2. n = [r EXCEPT !.rs = "none", !.asg = "none"]
    BY <1>1, <2>1 DEF DisplayPresent, InitDisplay
  <2> QED
    BY <1>1, <2>2 DEF DisplayState, RenderingState, Kept, SameFlags
<1>2. CASE ~r.skipFrame
  <2>1. d \in Externals => r.hpd
    BY DEF Steady, Lit
  <2>2. d \notin Virtuals
    BY DEF Quiet
  <2> DEFINE c == [r EXCEPT !.panel = "blank"]
             s == [r EXCEPT !.panel = r.asg]
  <2>3. n \in {c, s}
    BY <1>2, <2>1, <2>2 DEF DisplayPresent
  <2>4. /\ c \in DisplayState /\ Kept(r, c) /\ SameFlags(r, c)
        /\ c.hrs = r.hrs /\ c.skipVP = r.skipVP /\ c.asg = r.asg /\ c.panel = "blank"
    BY DEF DisplayState, Kept, SameFlags
  <2>5. /\ s \in DisplayState /\ Kept(r, s) /\ SameFlags(r, s)
        /\ s.hrs = r.hrs /\ s.skipVP = r.skipVP /\ s.asg = r.asg /\ s.panel = r.asg
    BY DEF DisplayState, Kept, SameFlags
  <2> HIDE DEF c, s
  <2> QED
    BY <1>2, <2>3, <2>4, <2>5
<1> QED
  BY <1>1, <1>2

\* A step on one display within a frame that leaves its flags and keeps the
\* client at work, or not, with it.
LEMMA QuietOneDisplay ==
    ASSUME TypeOK, QuietInv, NEW d \in Display, NEW r, NEW q \in Phase,
           disp' = [disp EXCEPT ![d] = r], phase' = [phase EXCEPT ![d] = q],
           geo => geo', UNCHANGED <<client, hotplug>>,
           Kept(disp[d], r), Waiting(q, r), Assigned(d, r, geo'), Shown(r),
           Lit(disp[d]) => r.vflag = disp[d].vflag /\ (q = "idle" <=> phase[d] = "idle"),
           r.pflag = disp[d].pflag
    PROVE  QuietInv'
<1>1. /\ disp'[d] = r /\ phase'[d] = q
      /\ \A x \in Display \ {d} : disp'[x] = disp[x] /\ phase'[x] = phase[x]
  BY DEF TypeOK
<1>2. Steady(d, r) /\ (Lit(r) <=> Lit(disp[d]))
  BY DEF QuietInv, Steady, Kept, Lit
<1>3. \A x \in Display : Steady(x, disp'[x]) /\ Waiting(phase'[x], disp'[x]) /\ Shown(disp'[x])
  BY <1>1, <1>2 DEF QuietInv
<1>4. \A x \in Display : Assigned(x, disp'[x], geo')
  BY <1>1 DEF QuietInv, Assigned
<1>5. \A x \in Display : Known(x)'
  <2>1. \A x \in Display : Lit(disp'[x]) <=> Lit(disp[x])
    BY <1>1, <1>2
  <2>2. \A x \in Display : disp'[x].hpd = disp[x].hpd
    BY <1>1 DEF Kept
  <2> QED
    BY <2>1, <2>2 DEF QuietInv, Known
<1>6. Uniform(disp')
  BY <1>1, <1>2 DEF QuietInv, Uniform
<1>7. Progress(disp', phase')
  <2>1. \A x \in Display : Lit(disp'[x]) <=> Lit(disp[x])
    BY <1>1, <1>2
  <2>2. \A x \in Display : Lit(disp[x]) => (phase'[x] = "idle" <=> phase[x] = "idle")
    BY <1>1
  <2>3. \A x \in Display : disp'[x].pflag = disp[x].pflag
    BY <1>1
  <2>4. \A x \in Display : ~disp[x].vflag => ~disp'[x].vflag
    BY <1>1, <1>2 DEF Assigned
  <2>5. FlagsCleared(disp) => FlagsCleared(disp')
    BY <2>3, <2>4 DEF FlagsCleared
  <2> QED
    BY <2>1, <2>2, <2>3, <2>5 DEF QuietInv, Progress
<1> QED
  BY <1>3, <1>4, <1>5, <1>6, <1>7 DEF QuietInv

\* A present that is not refused: either it ends the frame, which then remembers
\* what was skipped, or a lit display has still to present.
LEMMA QuietPresented ==
    ASSUME TypeOK, Quiet, QuietInv, NEW d \in Display, NEW N \in Displays,
           NEW f \in BOOLEAN, ~f, NEW p, p = PresentPostProcessing(N, geo, d, f),
           disp' = p.disp, geo' = p.geo, phase' = [phase EXCEPT ![d] = "idle"],
           UNCHANGED <<client, hotplug>>, phase[d] # "idle",
           \A x \in Display \ {d} : N[x] = disp[x],
           Kept(disp[d], N[d]), SameFlags(disp[d], N[d]), ~N[d].hrs, Shown(N[d]),
           Lit(disp[d]) \/ ~FlagsCleared(disp),
           N[d].asg = disp[d].asg \/ (N[d].skipFrame /\ N[d].vflag),
           \/ ~Lit(disp[d]) \/ N[d].skipVP
           \/ \A x \in Display : Lit(N[x]) => N[x].asg = "fresh" \/ N[x].skipFrame
    PROVE  QuietInv'
<1>1. /\ \A x \in Display \ {d} : Untouched(disp[x], disp'[x])
      /\ Kept(disp[d], disp'[d]) /\ disp'[d].rs = "presented" /\ ~disp'[d].hrs
      /\ disp'[d].asg = N[d].asg /\ Shown(disp'[d])
  <2>1. geo \in BOOLEAN
    BY DEF TypeOK
  <2>2. /\ \A x \in Display \ {d} : Untouched(N[x], p.disp[x])
        /\ Kept(N[d], p.disp[d]) /\ p.disp[d].rs = "presented"
        /\ p.disp[d].hrs = N[d].hrs
        /\ p.disp[d].asg = N[d].asg /\ p.disp[d].panel = N[d].panel
    BY <2>1, QuietPostPresent
  <2> QED
    BY <2>2 DEF Kept, Shown
<1>2. \A x \in Display : Kept(disp[x], disp'[x]) /\ (Lit(disp'[x]) <=> Lit(disp[x]))
  BY <1>1 DEF Untouched, Kept, Lit
<1>3. phase'[d] = "idle" /\ \A x \in Display \ {d} : phase'[x] = phase[x]
  BY DEF TypeOK
<1>4. \A x \in Display : Steady(x, disp'[x]) /\ Shown(disp'[x])
  BY <1>1, <1>2 DEF QuietInv, Steady, Kept, Shown, Untouched
<1>5. \A x \in Display : Known(x)'
  BY <1>2 DEF QuietInv, Known, Kept
<1>6. CASE /\ \E x \in Display \ {d} : Lit(N[x]) /\ ~N[x].pflag
           /\ p.geo = geo
           /\ \A x \in Display \ {d} : SameFlags(N[x], p.disp[x])
           /\ p.disp[d].vflag = N[d].vflag /\ p.disp[d].pflag
  <2>1. /\ geo' = geo
        /\ \A x \in Display : disp'[x].vflag = disp[x].vflag
        /\ \A x \in Display \ {d} : disp'[x].pflag = disp[x].pflag
        /\ disp'[d].pflag
    BY <1>6 DEF SameFlags
  <2>2. \A x \in Display : Waiting(phase'[x], disp'[x])
    BY <1>1, <1>2, <1>3, <2>1 DEF QuietInv, Waiting, Untouched
  <2>3. \A x \in Display : Assigned(x, disp'[x], geo')
    BY <1>1, <1>2, <2>1 DEF QuietInv, Assigned, Untouched, Kept, SameFlags
  <2>4. Uniform(disp')
    BY <1>2, <2>1 DEF QuietInv, Uniform
  <2>5. ~(\A x \in Display : Lit(disp[x]) => phase[x] = "idle")
    BY DEF QuietInv, Progress
  <2>6. PICK y \in Display \ {d} : Lit(disp[y]) /\ ~disp[y].pflag
    BY <1>6
  <2>7. phase'[y] # "idle"
    BY <1>3, <2>5, <2>6 DEF QuietInv, Progress
  <2>8. Progress(disp', phase')
    BY <1>2, <1>3, <2>1, <2>5, <2>6, <2>7 DEF QuietInv, Progress
  <2> QED
    BY <1>4, <1>5, <2>2, <2>3, <2>4, <2>8 DEF QuietInv
<1>7. CASE /\ \A x \in Display \ {d} : Lit(N[x]) => N[x].pflag
           /\ FlagsCleared(p.disp)
           /\ p.geo <=> \E x \in Display :
                Lit(N[x]) /\ (N[x].skipFrame \/ N[x].skipPresent \/ N[x].skipVP)
  <2>1. ~(\A x \in Display : Lit(disp[x]) => phase[x] = "idle")
    BY DEF QuietInv, Progress
  <2>2. \A x \in Display \ {d} : Lit(disp[x]) => phase[x] = "idle"
    BY <1>7, <2>1 DEF QuietInv, Progress
  <2>3. Lit(disp[d]) /\ Lit(N[d])
    BY <2>1, <2>2 DEF Kept, Lit
  <2>4. \A x \in Display : Lit(disp'[x]) => phase'[x] = "idle"
    BY <1>2, <1>3, <2>2
  <2>5. \A x \in Display : ~disp'[x].vflag /\ ~disp'[x].pflag
    BY <1>7 DEF FlagsCleared
  <2>6. \A x \in Display : Waiting(phase'[x], disp'[x])
    BY <1>1, <1>2, <1>3, <2>4, <2>5 DEF QuietInv, Waiting, Untouched
  <2>7. \A x \in Display : Lit(disp'[x]) => disp'[x].asg = "fresh" \/ geo'
    <3>1. \A x \in Display : disp'[x].asg = N[x].asg /\ (Lit(disp'[x]) <=> Lit(N[x]))
      BY <1>1, <1>2, <2>3 DEF Untouched
    <3> QED
      BY <1>7, <2>3, <3>1
  <2>8. \A x \in Display : Assigned(x, disp'[x], geo')
    BY <2>5, <2>7 DEF Assigned
  <2>9. Uniform(disp')
    BY <2>5 DEF Uniform
  <2>10. Progress(disp', phase')
    BY <1>7, <2>4 DEF Progress
  <2> QED
    BY <1>4, <1>5, <2>6, <2>8, <2>9, <2>10 DEF QuietInv
<1>8. geo \in BOOLEAN
  BY DEF TypeOK
<1> QED
  BY <1>6, <1>7, <1>8, QuietPostPresent

\* presentDisplay() in a refresh answers NOT_VALIDATED only to a first try.
LEMMA QuietPresent ==
    ASSUME TypeOK, Quiet, QuietInv, NEW d \in Display, phase[d] \in {"todo", "accepted"},
           NEW content \in Content, NEW c \in BOOLEAN, NEW f \in BOOLEAN, ~c, ~f,
           NEW p, p = PresentDisplay(disp, geo, d, content, c, f),
           disp' = p.disp, geo' = p.geo, UNCHANGED <<client, hotplug>>,
           p.ret = "NONE" => phase' = [phase EXCEPT ![d] = "idle"],
           p.ret # "NONE" /\ phase[d] = "todo" => phase' = [phase EXCEPT ![d] = "mustValidate"]
    PROVE  /\ QuietInv'
           /\ phase[d] = "accepted" => p.ret = "NONE"
           /\ \A x \in Externals : Shows(x) => disp[x].startLeft = 0
<1> DEFINE r == disp[d]
           v == r.skipVP \/ Suspended(r)
           e == [r EXCEPT !.skipVP = v, !.hrs = FALSE]
           D == [disp EXCEPT ![d] = e]
<1>1. /\ disp \in Displays /\ geo \in BOOLEAN /\ r \in DisplayState
      /\ Steady(d, r) /\ Waiting(phase[d], r) /\ Assigned(d, r, geo) /\ Shown(r)
  BY DEF TypeOK, QuietInv, Displays
<1>2. /\ v \in BOOLEAN
      /\ Suspended(r) <=> ~Lit(r)
  BY <1>1 DEF DisplayState, Suspended, Lit, Steady
<1>3. r.hrs => r.rs # "validated"
  BY <1>1 DEF Waiting
<1>4. p = IF Suspended(r) /\ FlagsCleared(D) THEN ForceSkipPresent(D, geo, d)
          ELSE IF D[d].skipPresent \/ D[d].skipVP THEN SkipPresent(D, geo, d, f)
          ELSE IF D[d].rs # "accepted" /\ ~CanSkipValidate(D, geo, content)
          THEN RejectPresent(D, geo, d, content)
          ELSE CommitFrame(D, geo, d, c, f)
  <2> DEFINE A == IF disp[d].hrs
                  THEN [disp EXCEPT ![d] = AcceptDisplayChanges(@)] ELSE disp
             E == [A EXCEPT ![d].skipVP = @ \/ Suspended(A[d]), ![d].hrs = FALSE]
  <2>1. A = disp
    BY <1>1, <1>3 DEF AcceptDisplayChanges, Displays
  <2>2. p = IF Suspended(A[d]) /\ FlagsCleared(E) THEN ForceSkipPresent(E, geo, d)
            ELSE IF E[d].skipPresent \/ E[d].skipVP THEN SkipPresent(E, geo, d, f)
            ELSE IF E[d].rs # "accepted" /\ ~CanSkipValidate(E, geo, content)
            THEN RejectPresent(E, geo, d, content)
            ELSE CommitFrame(E, geo, d, c, f)
    BY DEF PresentDisplay
  <2> HIDE DEF A
  <2>3. E = D
    BY <1>1, <2>1 DEF Displays
  <2> QED
    BY <2>1, <2>2, <2>3, Zenon
<1>5. /\ e \in DisplayState /\ Kept(r, e) /\ SameFlags(r, e)
      /\ e.rs = r.rs /\ e.asg = r.asg /\ e.panel = r.panel /\ ~e.hrs
      /\ e.skipVP <=> r.skipVP \/ ~Lit(r)
      /\ ~e.skipPresent
  <2> HIDE DEF v
  <2>1. /\ e \in DisplayState /\ Kept(r, e) /\ SameFlags(r, e)
        /\ e.rs = r.rs /\ e.asg = r.asg /\ e.panel = r.panel /\ ~e.hrs /\ e.skipVP = v
        /\ ~e.skipPresent
    BY <1>1, <1>2 DEF DisplayState, Kept, SameFlags, Steady
  <2> USE DEF v
  <2> QED
    BY <1>2, <2>1
<1> HIDE DEF v, e
<1>6. /\ D \in Displays /\ D[d] = e /\ \A x \in Display \ {d} : D[x] = disp[x]
      /\ \A s : [D EXCEPT ![d] = s] = [disp EXCEPT ![d] = s]
  BY <1>1, <1>5 DEF Displays
<1>7. FlagsCleared(D) <=> FlagsCleared(disp)
  BY <1>5, <1>6 DEF FlagsCleared, SameFlags
<1> HIDE DEF D
<1>8. ASSUME \A x \in Display : disp'[x].panel = disp[x].panel
      PROVE  \A x \in Externals : Shows(x) => disp[x].startLeft = 0
  BY <1>8 DEF Shows, Display
<1>9. CASE Suspended(r) /\ FlagsCleared(D)
  <2> DEFINE s == [e EXCEPT !.rs = "presented", !.pflag = FALSE]
  <2>1. p = ForceSkipPresent(D, geo, d)
    BY <1>4, <1>9, Zenon
  <2>2. p = [disp |-> [D EXCEPT ![d] = s], geo |-> geo, ret |-> "NONE"]
    BY <1>6, <2>1 DEF ForceSkipPresent, Displays
  <2>3. /\ Kept(r, s) /\ s.vflag = r.vflag /\ s.pflag = r.pflag /\ s.rs = "presented"
        /\ s.asg = r.asg /\ s.panel = r.panel /\ ~s.hrs
    <3>1. r.pflag = FALSE
      BY <1>1, <1>7, <1>9 DEF FlagsCleared, DisplayState
    <3> QED
      BY <1>5, <3>1 DEF DisplayState, Kept, SameFlags
  <2> HIDE DEF s
  <2>4. /\ disp' = [disp EXCEPT ![d] = s] /\ geo' = geo
        /\ phase' = [phase EXCEPT ![d] = "idle"] /\ p.ret = "NONE"
    <3>1. p.ret = "NONE"
      BY <2>2
    <3>2. phase' = [phase EXCEPT ![d] = "idle"]
      BY <3>1
    <3>3. geo' = geo
      BY <2>2
    <3>4. p.disp = [D EXCEPT ![d] = s]
      BY <2>2
    <3>5. disp' = [D EXCEPT ![d] = s]
      BY <3>4
    <3>6. [D EXCEPT ![d] = s] = [disp EXCEPT ![d] = s]
      BY <1>6
    <3> QED
      BY <3>1, <3>2, <3>3, <3>5, <3>6
  <2>5. ~Lit(s) /\ ~Lit(r)
    BY <1>2, <1>9, <2>3 DEF Lit, Kept
  <2>6. Waiting("idle", s) /\ Assigned(d, s, geo') /\ Shown(s)
    BY <1>1, <2>3, <2>5 DEF Waiting, Assigned, Shown
  <2>7. "idle" \in Phase
    BY DEF Phase
  <2>8. QuietInv'
    <3>1. /\ disp' = [disp EXCEPT ![d] = s] /\ phase' = [phase EXCEPT ![d] = "idle"]
          /\ (geo => geo') /\ UNCHANGED <<client, hotplug>>
      BY <2>4
    <3>2. Kept(disp[d], s) /\ s.pflag = disp[d].pflag /\ ~Lit(disp[d])
      BY <2>3, <2>5
    <3> HIDE DEF r
    <3> QED
      BY <2>6, <2>7, <3>1, <3>2, QuietOneDisplay
  <2> QED
    BY <1>1, <1>8, <2>3, <2>4, <2>8 DEF Displays
<1>10. CASE ~(Suspended(r) /\ FlagsCleared(D)) /\ (D[d].skipPresent \/ D[d].skipVP)
  <2> DEFINE q == PresentPostProcessing(D, geo, d, f)
  <2>1. p = SkipPresent(D, geo, d, f)
    BY <1>4, <1>10, Zenon
  <2>2. e.skipVP
    BY <1>5, <1>6, <1>10
  <2>3. p = [disp |-> q.disp, geo |-> q.geo, ret |-> "NONE"]
    BY <1>6, <2>1, <2>2 DEF SkipPresent
  <2>4. /\ \A x \in Display \ {d} : Untouched(D[x], q.disp[x])
        /\ q.disp[d].panel = D[d].panel
    BY <1>1, <1>6, QuietPostPresent
  <2>5. q = PresentPostProcessing(D, geo, d, f)
    OBVIOUS
  <2> HIDE DEF q
  <2>6. disp' = q.disp /\ geo' = q.geo /\ p.ret = "NONE"
        /\ phase' = [phase EXCEPT ![d] = "idle"]
    BY <2>3
  <2>7. Lit(disp[d]) \/ ~FlagsCleared(disp)
    BY <1>2, <1>7, <1>10
  <2>8. QuietInv'
    BY <1>1, <1>5, <1>6, <2>2, <2>5, <2>6, <2>7, QuietPresented DEF Shown
  <2>9. \A x \in Display : disp'[x].panel = disp[x].panel
    BY <1>5, <1>6, <2>4, <2>6 DEF Untouched
  <2> QED
    BY <1>8, <2>6, <2>8, <2>9
<1>11. CASE /\ Lit(r) /\ ~e.skipVP
            /\ D[d].rs # "accepted" /\ ~CanSkipValidate(D, geo, content)
  <2> DEFINE s == [e EXCEPT !.rs = "none"]
             h == geo \/ content = "changed"
  <2>1. p = RejectPresent(D, geo, d, content)
    BY <1>2, <1>4, <1>5, <1>6, <1>11, Zenon
  <2>2. p = [disp |-> [D EXCEPT ![d] = s], geo |-> h, ret |-> "NOT_VALIDATED"]
    BY <1>6, <2>1 DEF RejectPresent, Displays
  <2>3. /\ Kept(r, s) /\ s.vflag = r.vflag /\ s.pflag = r.pflag /\ s.rs = "none"
        /\ s.asg = r.asg /\ s.panel = r.panel /\ ~s.hrs
    BY <1>5 DEF DisplayState, Kept, SameFlags
  <2>4. h \in BOOLEAN /\ (geo => h)
    OBVIOUS
  <2> HIDE DEF s, h
  <2>10. phase[d] # "accepted"
    BY <1>1, <1>5, <1>6, <1>11 DEF Waiting
  <2>5. /\ disp' = [disp EXCEPT ![d] = s] /\ (geo => geo')
        /\ phase' = [phase EXCEPT ![d] = "mustValidate"]
    <3>1. phase' = [phase EXCEPT ![d] = "mustValidate"] /\ geo' = h
      BY <2>2, <2>10
    <3>2. p.disp = [D EXCEPT ![d] = s]
      BY <2>2
    <3>3. [D EXCEPT ![d] = s] = [disp EXCEPT ![d] = s]
      BY <1>6
    <3>4. disp' = [disp EXCEPT ![d] = s]
      BY <3>2, <3>3
    <3>5. geo => geo'
      BY <2>4, <3>1
    <3> QED
      BY <3>1, <3>4, <3>5
  <2>6. Lit(s)
    BY <1>11, <2>3 DEF Lit, Kept
  <2>7. Waiting("mustValidate", s) /\ Assigned(d, s, geo') /\ Shown(s)
    BY <1>1, <1>11, <2>3, <2>5, <2>6 DEF Waiting, Assigned, Shown, Kept
  <2>8. "mustValidate" \in Phase
    BY DEF Phase
  <2>9. QuietInv'
    BY <2>3, <2>5, <2>7, <2>8, QuietOneDisplay
  <2> QED
    BY <1>1, <1>8, <2>3, <2>5, <2>9, <2>10 DEF Displays
<1>12. CASE /\ Lit(r) /\ ~e.skipVP
            /\ D[d].rs = "accepted" \/ CanSkipValidate(D, geo, content)
  <2> DEFINE n == DisplayPresent(d, e)
             N == [D EXCEPT ![d] = n]
             q == PresentPostProcessing(N, geo, d, f)
  <2>1. p = CommitFrame(D, geo, d, c, f)
    BY <1>2, <1>4, <1>5, <1>6, <1>12, Zenon
  <2> DEFINE bad == c /\ Committing(d, D[d])
             m == IF bad THEN HandlePresentError(d, D[d]) ELSE DisplayPresent(d, D[d])
             k == PresentPostProcessing([D EXCEPT ![d] = m], geo, d, f)
  <2>2. p = [disp |-> k.disp, geo |-> (k.geo \/ bad),
             ret |-> IF bad \/ f THEN "ERROR" ELSE "NONE"]
    BY <2>1 DEF CommitFrame
  <2>20. k = q /\ ~bad
    BY <1>6
  <2> HIDE DEF bad, k
  <2>3. Steady(d, e) /\ Lit(e)
    BY <1>1, <1>5, <1>12 DEF Steady, Lit, Kept
  <2>4. /\ n \in DisplayState /\ Kept(e, n) /\ SameFlags(e, n)
        /\ n.hrs = e.hrs /\ n.skipVP = e.skipVP
        /\ e.skipFrame => n.panel = e.panel
        /\ ~e.skipFrame => n.asg = e.asg /\ n.panel \in {"blank", e.asg}
    BY <1>5, <2>3, QuietDisplayPresent
  <2>5. /\ N \in Displays /\ N[d] = n /\ \A x \in Display \ {d} : N[x] = disp[x]
    BY <1>6, <2>4 DEF Displays
  <2>6. q = PresentPostProcessing(N, geo, d, f)
    OBVIOUS
  <2>7. q.geo \in BOOLEAN
    BY <1>1, <2>5, <2>6, PresentPostProcessingFacts
  <2> HIDE DEF n, N, q
  <2>8. /\ disp' = q.disp /\ geo' = q.geo /\ p.ret = "NONE"
        /\ phase' = [phase EXCEPT ![d] = "idle"]
    <3>1. p.ret = "NONE"
      BY <2>2, <2>20
    <3>2. p.disp = k.disp /\ p.geo = (k.geo \/ bad)
      BY <2>2
    <3>3. (k.geo \/ bad) = q.geo
      BY <2>7, <2>20
    <3> QED
      BY <2>20, <3>1, <3>2, <3>3
  <2>9. \/ r.vflag
        \/ \A x \in Display : Lit(disp[x]) =>
             /\ disp[x].asg = "fresh" /\ ~disp[x].skipFrame
             /\ x \in Externals => disp[x].startLeft = 0
    <3>1. CASE D[d].rs = "accepted"
      BY <1>1, <1>5, <1>6, <1>12, <3>1 DEF Waiting
    <3>2. CASE CanSkipValidate(D, geo, content)
      <4>1. ~geo /\ \A x \in Display : Lit(D[x]) =>
              (x \in Externals => ~D[x].skipFrame /\ D[x].startLeft = 0)
        BY <3>2 DEF CanSkipValidate, DisplayCanSkipValidate, Lit
      <4>2. \A x \in Display : Lit(disp[x]) =>
              (x \in Externals => ~disp[x].skipFrame /\ disp[x].startLeft = 0)
        BY <1>5, <1>6, <1>12, <4>1 DEF Kept, Lit
      <4>3. \A x \in Display : Lit(disp[x]) => ~disp[x].skipFrame
        BY <4>2 DEF QuietInv, Steady, Display, Quiet
      <4> QED
        BY <4>1, <4>2, <4>3 DEF QuietInv, Assigned
    <3> QED
      BY <1>12, <3>1, <3>2
  <2>10. \A x \in Display : Lit(disp[x]) => disp[x].asg = "fresh" \/ disp[x].skipFrame
    BY <1>12, <2>9 DEF QuietInv, Uniform, Assigned
  <2>11. ~r.skipFrame => r.asg = "fresh" /\ (d \in Externals => r.startLeft = 0)
    BY <1>1, <1>12, <2>9, <2>10 DEF Assigned
  <2>12. Kept(r, n) /\ SameFlags(r, n) /\ ~n.hrs
    BY <1>5, <2>4 DEF Kept, SameFlags
  <2>13. Shown(n)
    BY <1>1, <1>5, <2>4, <2>11 DEF Shown, Kept
  <2>14. n.asg = r.asg \/ (n.skipFrame /\ n.vflag)
    BY <1>5, <1>12, <2>4, <2>9, <2>12 DEF Kept, SameFlags
  <2>15. \A x \in Display : Lit(N[x]) => N[x].asg = "fresh" \/ N[x].skipFrame
    BY <1>12, <2>5, <2>10, <2>12, <2>14 DEF Kept
  <2>16. QuietInv'
    BY <1>12, <2>5, <2>6, <2>8, <2>12, <2>13, <2>14, <2>15, QuietPresented
  <2>17. /\ \A x \in Display \ {d} : disp'[x].panel = disp[x].panel
         /\ disp'[d].panel = n.panel
    BY <1>1, <2>5, <2>6, <2>8, QuietPostPresent DEF Untouched
  <2>18. Shows(d) => ~r.skipFrame
    BY <1>5, <2>4, <2>17 DEF Shows, Kept
  <2>19. \A x \in Externals : Shows(x) => disp[x].startLeft = 0
    BY <2>11, <2>17, <2>18 DEF Shows, Display
  <2> QED
    BY <2>8, <2>16, <2>19
<1> QED
  BY <1>2, <1>4, <1>5, <1>6, <1>9, <1>10, <1>11, <1>12

\* What the first validate of a refresh makes of a lit display.
Revalidated(x, r, z) ==
    /\ z.plug = r.plug /\ z.hpd = r.hpd /\ z.power = r.power /\ ~z.skipPresent
    /\ x \in Primaries => ~z.skipFrame
    /\ z.rs = "validated" /\ z.pflag = r.pflag /\ z.vflag = TRUE
    /\ z.panel = r.panel
    /\ z.asg = "fresh" \/ z.skipFrame
    /\ x \in Externals /\ ~z.skipFrame => z.startLeft = 0

\* The validation of one display of a quiet device: its assignment is redone
\* when the geometry flag g is set, which it is when the old one is not fresh.
LEMMA QuietValidateOne ==
    ASSUME Quiet, NEW x \in Display, NEW r \in DisplayState, Steady(x, r), NEW g \in BOOLEAN,
           r.asg = "fresh" \/ g, PreProcessGeometry(x, r) => g,
           NEW R, R = IF g THEN [PreProcess(x, r) EXCEPT !.asg = "none"] ELSE PreProcess(x, r)
    PROVE  /\ Revalidated(x, r, ValidateOne(x, R, g, "none"))
           /\ ValidateOne(x, R, g, "none").hrs = r.hrs
<1> DEFINE n == [r EXCEPT !.skipVP = FALSE]
           s == r.startLeft > 0
           a == IF g /\ ~R.skipFrame THEN Assign(R) ELSE R
           z == SetValidateState(PostProcess(x, a))
<1>1. x \notin Virtuals /\ (x \in Primaries <=> x \notin Externals)
  BY KindAssumption DEF Quiet, Display
<1>2. ValidateOne(x, R, g, "none") = z
  BY DEF ValidateOne
<1>3. CASE x \in Primaries
  <2>1. R = IF g THEN [r EXCEPT !.skipVP = FALSE, !.asg = "none"]
            ELSE [r EXCEPT !.skipVP = FALSE]
    BY <1>1, <1>3 DEF PreProcess
  <2>2. a = [r EXCEPT !.skipVP = FALSE, !.asg = "fresh"]
    BY <1>3, <2>1 DEF Assign, Steady, DisplayState
  <2> HIDE DEF a
  <2>3. z = [a EXCEPT !.rs = "validated", !.vflag = TRUE, !.skipPresent = FALSE]
    BY <1>1, <1>3 DEF PostProcess, SetValidateState
  <2> HIDE DEF z
  <2>4. Revalidated(x, r, z) /\ z.hrs = r.hrs
    BY <1>1, <1>3, <2>2, <2>3 DEF Revalidated, Steady, DisplayState
  <2> QED
    BY <1>2, <2>4
<1>4. CASE x \in Externals /\ r.startLeft = 0
  <2>1. PreProcess(x, r) = [r EXCEPT !.skipVP = FALSE, !.skipPresent = FALSE, !.skipFrame = FALSE]
    <3>1. n.startLeft = 0 /\ n \in DisplayState
      BY <1>4 DEF DisplayState
    <3>2. PreProcess(x, r) = PreProcessExternal(n)
      BY <1>4 DEF PreProcess
    <3>3. (n.startLeft > 0) = FALSE
      BY <3>1
    <3> HIDE DEF n
    <3>4. PreProcessExternal(n) = [n EXCEPT !.skipPresent = FALSE, !.skipFrame = FALSE]
      BY <3>3, Zenon DEF PreProcessExternal
    <3> USE DEF n
    <3> QED
      BY <3>2, <3>4 DEF DisplayState
  <2>2. a = [r EXCEPT !.skipVP = FALSE, !.skipPresent = FALSE, !.skipFrame = FALSE,
                      !.asg = "fresh"]
    BY <1>4, <2>1 DEF Assign, DisplayState
  <2> HIDE DEF a
  <2>3. PostProcess(x, a) = a
    BY <1>1, <1>4, <2>2 DEF PostProcess, DisplayState
  <2>4. z = [a EXCEPT !.rs = "validated", !.vflag = TRUE, !.skipPresent = FALSE]
    BY <2>3 DEF SetValidateState
  <2> HIDE DEF z
  <2>5. Revalidated(x, r, z) /\ z.hrs = r.hrs
    BY <1>1, <1>4, <2>2, <2>4 DEF Revalidated, DisplayState
  <2> QED
    BY <1>2, <2>5
<1>5. CASE x \in Externals /\ r.startLeft > 0
  <2>1. g
    BY <1>1, <1>5 DEF PreProcessGeometry
  <2>2. PreProcess(x, r) = [r EXCEPT !.skipVP = FALSE, !.rs = "none", !.asg = "none",
                                     !.skipPresent = FALSE, !.skipFrame = TRUE]
    BY <1>5 DEF PreProcess, PreProcessExternal, InitDisplay, DisplayState
  <2>3. a = [r EXCEPT !.skipVP = FALSE, !.rs = "none", !.asg = "none",
                      !.skipPresent = FALSE, !.skipFrame = TRUE]
    BY <2>1, <2>2 DEF DisplayState
  <2> HIDE DEF a
  <2>4. PostProcess(x, a) = [a EXCEPT !.rs = "validated", !.asg = "none",
                                      !.startLeft = r.startLeft - 1]
    BY <1>5, <2>3 DEF PostProcess, InitDisplay, DisplayState
  <2>5. z = [a EXCEPT !.rs = "validated", !.asg = "none", !.startLeft = r.startLeft - 1,
                      !.vflag = TRUE, !.skipPresent = FALSE]
    BY <2>4 DEF SetValidateState
  <2> HIDE DEF z
  <2>6. Revalidated(x, r, z) /\ z.hrs = r.hrs
    BY <1>1, <1>5, <2>3, <2>5 DEF Revalidated, DisplayState
  <2> QED
    BY <1>2, <2>6
<1> QED
  BY <1>1, <1>3, <1>4, <1>5 DEF DisplayState

\* What it makes of another display.
LeftOut(r, s) == s \in {r, [r EXCEPT !.asg = "none"]}

\* The first validate of a refresh keeps the invariant.
LEMMA QuietFirstValidate ==
    ASSUME TypeOK, QuietInv, NEW d \in Display, Lit(disp[d]),
           phase[d] \in {"todo", "mustValidate"},
           \A x \in Display : Lit(disp[x]) => ~disp[x].vflag,
           \A x \in Display : Lit(disp[x]) => Revalidated(x, disp[x], disp'[x]),
           \A x \in Display \ {d} : disp'[x].hrs = disp[x].hrs,
           \A x \in Display : ~Lit(disp[x]) => LeftOut(disp[x], disp'[x]),
           phase' = [phase EXCEPT ![d] = "validated"], UNCHANGED <<client, hotplug>>
    PROVE  QuietInv' /\ \A x \in Display : disp'[x].panel = disp[x].panel
<1>1. /\ \A x \in Display : /\ Steady(x, disp[x]) /\ Known(x) /\ Waiting(phase[x], disp[x])
                            /\ Assigned(x, disp[x], geo) /\ Shown(disp[x])
      /\ Uniform(disp) /\ Progress(disp, phase)
  BY DEF QuietInv
<1>2. \A x \in Display : ~Lit(disp[x]) =>
        /\ Kept(disp[x], disp'[x]) /\ SameFlags(disp[x], disp'[x])
        /\ disp'[x].rs = disp[x].rs /\ disp'[x].hrs = disp[x].hrs
        /\ disp'[x].panel = disp[x].panel
  <2> SUFFICES ASSUME NEW x \in Display, ~Lit(disp[x])
               PROVE  /\ Kept(disp[x], disp'[x]) /\ SameFlags(disp[x], disp'[x])
                      /\ disp'[x].rs = disp[x].rs /\ disp'[x].hrs = disp[x].hrs
                      /\ disp'[x].panel = disp[x].panel
    OBVIOUS
  <2>1. disp[x] \in DisplayState
    BY DEF TypeOK
  <2>2. CASE disp'[x] = disp[x]
    BY <2>2 DEF Kept, SameFlags
  <2>3. CASE disp'[x] = [disp[x] EXCEPT !.asg = "none"]
    BY <2>1, <2>3 DEF DisplayState, Kept, SameFlags
  <2> QED
    BY <2>2, <2>3 DEF LeftOut
<1>3. \A x \in Display :
        /\ disp'[x].plug = disp[x].plug /\ disp'[x].hpd = disp[x].hpd
        /\ disp'[x].power = disp[x].power /\ disp'[x].pflag = disp[x].pflag
        /\ disp'[x].panel = disp[x].panel
  BY <1>2 DEF Kept, SameFlags, Revalidated
<1>4. phase'[d] = "validated" /\ \A x \in Display \ {d} : phase'[x] = phase[x]
  BY DEF TypeOK
<1>5. \A x \in Display : Lit(disp'[x]) <=> Lit(disp[x])
  BY <1>3 DEF Lit
<1>6. \A x \in Display : Steady(x, disp'[x])
  <2> SUFFICES ASSUME NEW x \in Display PROVE Steady(x, disp'[x])
    OBVIOUS
  <2>1. ~disp'[x].skipPresent /\ (x \in Primaries => ~disp'[x].skipFrame)
    BY <1>1, <1>2 DEF Steady, Kept, Revalidated
  <2> QED
    BY <1>1, <1>3, <2>1 DEF Steady
<1>7. \A x \in Display : Known(x)'
  BY <1>1, <1>3, <1>5 DEF Known
<1>8. \A x \in Display : Shown(disp'[x])
  BY <1>1, <1>3 DEF Shown
<1>9. \A x \in Display : Assigned(x, disp'[x], geo')
  BY <1>1, <1>2, <1>5 DEF Assigned, SameFlags, Revalidated
<1>10. ASSUME NEW x \in Display
       PROVE  Waiting(phase'[x], disp'[x])
  <2>1. CASE x # d /\ Lit(disp[x])
    <3>1. phase[x] \notin {"validated", "accepted"} /\ ~disp[x].hrs
      BY <1>1, <2>1 DEF Waiting
    <3>2. disp'[x].rs = "validated" /\ disp'[x].hrs = disp[x].hrs
      BY <2>1 DEF Revalidated
    <3>3. phase'[x] = phase[x] /\ phase[x] # "rejected"
      BY <1>1, <1>4, <2>1 DEF Waiting
    <3> QED
      BY <3>1, <3>2, <3>3 DEF Waiting
  <2>2. CASE x # d /\ ~Lit(disp[x])
    <3>1. phase'[x] = phase[x] /\ Waiting(phase[x], disp[x]) /\ ~Lit(disp'[x])
      BY <1>1, <1>4, <1>5, <2>2
    <3>2. disp'[x].rs = disp[x].rs /\ disp'[x].hrs = disp[x].hrs
      BY <1>2, <2>2
    <3> QED
      BY <3>1, <3>2 DEF Waiting
  <2>3. CASE x = d
    BY <1>4, <2>3 DEF Waiting, Revalidated
  <2> QED
    BY <2>1, <2>2, <2>3
<1>11. Uniform(disp')
  BY <1>5 DEF Uniform, Revalidated
<1>12. Progress(disp', phase')
  <2>1. ~(\A x \in Display : Lit(disp'[x]) => phase'[x] = "idle")
    BY <1>4, <1>5
  <2>2. \A x \in Display : Lit(disp[x]) => (disp[x].pflag <=> phase[x] = "idle")
    BY <1>1 DEF Progress
  <2>3. ~disp[d].pflag
    BY <2>2
  <2>4. ASSUME NEW x \in Display, Lit(disp'[x])
        PROVE  disp'[x].pflag <=> phase'[x] = "idle"
    <3>1. disp'[x].pflag = disp[x].pflag /\ Lit(disp[x])
      BY <1>3, <1>5, <2>4
    <3> QED
      BY <1>4, <2>2, <2>3, <3>1
  <2> QED
    BY <2>1, <2>4 DEF Progress
<1> QED
  BY <1>3, <1>6, <1>7, <1>8, <1>9, <1>10, <1>11, <1>12 DEF QuietInv

\* validateDisplay() keeps the invariant and shows nothing.
LEMMA QuietValidate ==
    ASSUME TypeOK, Quiet, QuietInv, NEW d \in Display, phase[d] \in {"todo", "mustValidate"},
           NEW changed \in BOOLEAN, NEW prep \in BOOLEAN, ~prep,
           NEW failed \in [Display -> {"none"}],
           NEW v, v = ValidateDisplay(disp, geo, d, changed, prep, failed),
           disp' = v.disp, geo' = v.geo, UNCHANGED <<client, hotplug>>,
           phase' = [phase EXCEPT ![d] = IF v.ret = "NONE" THEN "validated" ELSE "idle"]
    PROVE  QuietInv' /\ \A x \in Display : disp'[x].panel = disp[x].panel
<1> DEFINE r == disp[d]
<1>1. /\ disp \in Displays /\ geo \in BOOLEAN /\ r \in DisplayState
      /\ \A x \in Display : disp[x] \in DisplayState
      /\ \A x \in Display : /\ Steady(x, disp[x]) /\ Known(x) /\ Waiting(phase[x], disp[x])
                            /\ Assigned(x, disp[x], geo) /\ Shown(disp[x])
      /\ Uniform(disp) /\ Progress(disp, phase)
  BY DEF TypeOK, QuietInv, Displays
<1>2. Suspended(r) <=> ~Lit(r)
  BY <1>1 DEF Suspended, Lit, Steady
<1>3. "validated" \in Phase
  BY DEF Phase
<1>4. ASSUME NEW s, Kept(r, s), s.rs = "validated", s.asg = r.asg, s.panel = r.panel,
             s.pflag = r.pflag, Lit(r) => s.vflag /\ r.vflag /\ s.vflag = r.vflag,
             ~Lit(r) => ~s.vflag, v.disp = [disp EXCEPT ![d] = s], v.geo = geo, v.ret = "NONE"
      PROVE  QuietInv' /\ \A x \in Display : disp'[x].panel = disp[x].panel
  <2>1. /\ disp' = [disp EXCEPT ![d] = s] /\ (geo => geo')
        /\ phase' = [phase EXCEPT ![d] = "validated"]
    BY <1>4
  <2>2. Lit(s) <=> Lit(r)
    BY <1>4 DEF Kept, Lit
  <2>3. Waiting("validated", s) /\ Assigned(d, s, geo') /\ Shown(s)
    BY <1>1, <1>4, <2>1, <2>2 DEF Waiting, Assigned, Shown, Kept
  <2>4. QuietInv'
    BY <1>3, <1>4, <2>1, <2>3, QuietOneDisplay
  <2> QED
    BY <1>1, <1>4, <2>1, <2>4 DEF Displays
<1>5. CASE Suspended(r)
  <2> DEFINE s == [r EXCEPT !.skipVP = TRUE, !.rs = "validated", !.vflag = FALSE, !.hrs = TRUE]
  <2>1. v = [disp |-> [disp EXCEPT ![d] = s], geo |-> geo, ret |-> "NONE"]
    BY <1>1, <1>5 DEF ValidateDisplay, Displays
  <2>2. /\ Kept(r, s) /\ s.rs = "validated" /\ s.asg = r.asg /\ s.panel = r.panel
        /\ s.pflag = r.pflag /\ ~s.vflag
    BY <1>1 DEF DisplayState, Kept
  <2> HIDE DEF s
  <2>3. v.disp = [disp EXCEPT ![d] = s] /\ v.geo = geo /\ v.ret = "NONE"
    BY <2>1
  <2> QED
    BY <1>2, <1>4, <1>5, <2>2, <2>3
<1>6. IsFirstValidate(disp) <=> \A x \in Display : Lit(disp[x]) => ~disp[x].vflag
  BY <1>1, QuietInactive DEF IsFirstValidate
<1>7. CASE ~Suspended(r) /\ ~IsFirstValidate(disp)
  <2> DEFINE b == ~r.vflag
             s == [r EXCEPT !.skipVP = b, !.hrs = TRUE, !.rs = "validated", !.vflag = TRUE,
                            !.skipPresent = FALSE]
  <2>1. r.vflag = TRUE /\ Lit(r)
    BY <1>1, <1>2, <1>6, <1>7 DEF Uniform, DisplayState
  <2>2. AlreadyValidated(r) = s
    BY <1>1 DEF AlreadyValidated, SetValidateState, DisplayState
  <2>3. v = [disp |-> [disp EXCEPT ![d] = AlreadyValidated(r)], geo |-> geo, ret |-> "NONE"]
    BY <1>1, <1>7 DEF ValidateDisplay, Displays
  <2>4. /\ Kept(r, s) /\ s.rs = "validated" /\ s.asg = r.asg /\ s.panel = r.panel
        /\ s.pflag = r.pflag /\ s.vflag = TRUE
    BY <1>1 DEF DisplayState, Kept, Steady
  <2> HIDE DEF s
  <2>5. v.disp = [disp EXCEPT ![d] = s] /\ v.geo = geo /\ v.ret = "NONE"
    BY <2>2, <2>3
  <2> QED
    BY <1>4, <2>1, <2>4, <2>5
<1>8. CASE ~Suspended(r) /\ IsFirstValidate(disp)
  <2> DEFINE Todo == {x \in Display : ~SkipInValidateAll(disp, x, d)}
             P == [x \in Display |-> IF x \in Todo THEN PreProcess(x, disp[x]) ELSE disp[x]]
             gp == geo \/ changed \/ \E x \in Todo : PreProcessGeometry(x, disp[x])
             R == IF gp THEN [x \in Display |-> [P[x] EXCEPT !.asg = "none"]] ELSE P
             flagged(x) == gp \/ \E y \in Todo : Rank(y) > Rank(x) /\ failed[y] # "none"
             N == [x \in Display |-> IF x \in Todo
                                     THEN ValidateOne(x, R[x], flagged(x), failed[x])
                                     ELSE R[x]]
             h == gp \/ \E x \in Todo : failed[x] # "none"
             w == ValidateAllDisplays(disp, geo, d, changed, prep, failed)
  <2>1. w = [disp |-> N, geo |-> h, ret |-> "NONE"]
    BY DEF ValidateAllDisplays
  <2>2. v = [w EXCEPT !.disp[d].hrs = TRUE]
    BY <1>8, Zenon DEF ValidateDisplay
  <2>3. /\ Lit(r)
        /\ \A x \in Display : x \in Todo <=> Lit(disp[x])
    BY <1>1, <1>2, <1>8, QuietInactive DEF SkipInValidateAll, Steady
  <2>4. gp \in BOOLEAN /\ h = gp /\ \A x \in Display : flagged(x) = gp
    <3>1. \A x \in Todo : ~(failed[x] # "none")
      OBVIOUS
    <3> HIDE DEF gp, Todo
    <3>2. (\E x \in Todo : failed[x] # "none") = FALSE
      BY <3>1
    <3>3. \A x \in Display : (\E y \in Todo : Rank(y) > Rank(x) /\ failed[y] # "none") = FALSE
      BY <3>1
    <3>4. gp \in BOOLEAN
      BY DEF gp
    <3> QED
      BY <3>2, <3>3, <3>4
  <2>5. /\ geo => gp
        /\ \A x \in Display : Lit(disp[x]) /\ PreProcessGeometry(x, disp[x]) => gp
    BY <2>3
  <2>6. ASSUME NEW x \in Display, Lit(disp[x])
        PROVE  Revalidated(x, disp[x], N[x]) /\ N[x].hrs = disp[x].hrs
    <3>1. R[x] = IF gp THEN [PreProcess(x, disp[x]) EXCEPT !.asg = "none"]
                 ELSE PreProcess(x, disp[x])
      BY <2>3, <2>6
    <3>2. N[x] = ValidateOne(x, R[x], gp, "none")
      <4>1. N[x] = ValidateOne(x, R[x], flagged(x), failed[x])
        BY <2>3, <2>6
      <4>2. failed[x] = "none" /\ flagged(x) = gp
        BY <2>4
      <4> HIDE DEF N, flagged, gp, R
      <4> QED
        BY <4>1, <4>2
    <3>3. disp[x].asg = "fresh" \/ gp
      BY <1>1, <1>6, <1>8, <2>5, <2>6 DEF Assigned
    <3> HIDE DEF N, R, gp
    <3> QED
      BY <1>1, <2>4, <2>5, <2>6, <3>1, <3>2, <3>3, QuietValidateOne
  <2>7. ASSUME NEW x \in Display, ~Lit(disp[x])
        PROVE  N[x] \in {disp[x], [disp[x] EXCEPT !.asg = "none"]}
    <3>1. P[x] = disp[x]
      BY <2>3, <2>7
    <3>2. R[x] \in {P[x], [P[x] EXCEPT !.asg = "none"]}
      OBVIOUS
    <3>3. N[x] = R[x]
      BY <2>3, <2>7
    <3> HIDE DEF P, R, N
    <3> QED
      BY <3>1, <3>2, <3>3
  <2>8. \A x \in Display : N[x] \in DisplayState
    <3>1. failed \in [Display -> Steps]
      BY DEF Steps
    <3>2. w.disp \in Displays
      BY <1>1, <3>1, ValidateAllFacts
    <3>3. N \in Displays
      BY <2>1, <3>2
    <3> HIDE DEF N
    <3> QED
      BY <3>3 DEF Displays
  <2> DEFINE M == [N EXCEPT ![d].hrs = TRUE]
  <2>9. v = [disp |-> M, geo |-> h, ret |-> "NONE"]
    <3> HIDE DEF N, h, w
    <3>1. w.disp = N
      BY <2>1
    <3> QED
      BY <2>1, <2>2, <3>1
  <2>10. DOMAIN N = Display
    OBVIOUS
  <2> HIDE DEF N, h, gp, w
  <2>11. M[d] = [N[d] EXCEPT !.hrs = TRUE] /\ \A x \in Display \ {d} : M[x] = N[x]
    BY <2>10
  <2>12. geo' = gp /\ disp' = M /\ phase'[d] = "validated"
         /\ \A x \in Display \ {d} : phase'[x] = phase[x]
    <3>1. v.disp = M /\ v.geo = h /\ v.ret = "NONE"
      BY <2>9
    <3> HIDE DEF M
    <3> QED
      BY <2>4, <3>1 DEF TypeOK
  <2> HIDE DEF M
  <2>13. \A x \in Display : Lit(disp[x]) => Revalidated(x, disp[x], disp'[x])
    <3> SUFFICES ASSUME NEW x \in Display, Lit(disp[x])
                 PROVE  Revalidated(x, disp[x], disp'[x])
      OBVIOUS
    <3>1. Revalidated(x, disp[x], N[x]) /\ N[x] \in DisplayState
      BY <2>6, <2>8
    <3>2. disp'[x] \in {N[x], [N[x] EXCEPT !.hrs = TRUE]}
      BY <2>11, <2>12
    <3> QED
      BY <3>1, <3>2 DEF Revalidated, DisplayState
  <2>14. \A x \in Display : ~Lit(disp[x]) => LeftOut(disp[x], disp'[x])
    BY <2>3, <2>7, <2>11, <2>12 DEF LeftOut
  <2>15. \A x \in Display \ {d} : disp'[x].hrs = disp[x].hrs
    <3> SUFFICES ASSUME NEW x \in Display \ {d} PROVE disp'[x].hrs = disp[x].hrs
      OBVIOUS
    <3>1. disp'[x] = N[x] /\ disp[x] \in DisplayState
      BY <1>1, <2>11, <2>12
    <3>2. CASE Lit(disp[x])
      BY <2>6, <3>1, <3>2
    <3>3. CASE ~Lit(disp[x])
      BY <2>7, <3>1, <3>3 DEF DisplayState
    <3> QED
      BY <3>2, <3>3
  <2>16. phase' = [phase EXCEPT ![d] = "validated"]
    BY <2>9
  <2> QED
    BY <1>6, <1>8, <2>3, <2>13, <2>14, <2>15, <2>16, QuietFirstValidate
<1> QED
  BY <1>5, <1>7, <1>8

\* Between two refreshes no display is validated or presented.
LEMMA QuietAtRest ==
    ASSUME TypeOK, QuietInv, ~InRefresh, NEW x \in Display
    PROVE  /\ phase[x] = "idle" /\ Steady(x, disp[x]) /\ Known(x) /\ Shown(disp[x])
           /\ ~disp[x].vflag /\ ~disp[x].pflag /\ ~disp[x].hrs /\ disp[x].rs # "accepted"
           /\ Lit(disp[x]) => disp[x].asg = "fresh" \/ geo
<1>1. \A y \in Display : phase[y] = "idle"
  BY DEF TypeOK, Phase, InRefresh, InFlight, QuietInv, Waiting
<1>2. FlagsCleared(disp)
  BY <1>1 DEF QuietInv, Progress
<1>3. Waiting(phase[x], disp[x]) /\ Assigned(x, disp[x], geo)
  BY DEF QuietInv
<1>4. ~disp[x].hrs /\ disp[x].rs # "accepted"
  BY <1>1, <1>3 DEF Waiting
<1> QED
  BY <1>1, <1>2, <1>3, <1>4 DEF QuietInv, FlagsCleared, Assigned

\* A step that leaves all displays so keeps the invariant.
LEMMA QuietRests ==
    ASSUME \A x \in Display :
             /\ phase'[x] = "idle" /\ Steady(x, disp'[x]) /\ Known(x)' /\ Shown(disp'[x])
             /\ ~disp'[x].vflag /\ ~disp'[x].pflag /\ ~disp'[x].hrs /\ disp'[x].rs # "accepted"
             /\ Lit(disp'[x]) => disp'[x].asg = "fresh" \/ geo'
    PROVE  QuietInv'
<1>1. ASSUME NEW x \in Display
      PROVE  Waiting(phase'[x], disp'[x]) /\ Assigned(x, disp'[x], geo')
  BY DEF Waiting, Assigned
<1>2. Uniform(disp')
  BY DEF Uniform
<1>3. Progress(disp', phase')
  BY DEF Progress, FlagsCleared
<1> QED
  BY <1>1, <1>2, <1>3 DEF QuietInv

\* A step on one display between two refreshes.
LEMMA QuietRestStep ==
    ASSUME TypeOK, QuietInv, ~InRefresh, NEW d \in Display, NEW r,
           disp' = [disp EXCEPT ![d] = r], phase' = phase, geo => geo',
           Steady(d, r), Shown(r), SameFlags(disp[d], r), r.hrs = disp[d].hrs,
           r.rs = disp[d].rs, Lit(r) => r.asg = "fresh" \/ geo',
           \A x \in Display : Known(x)'
    PROVE  QuietInv'
<1>1. disp'[d] = r /\ \A x \in Display \ {d} : disp'[x] = disp[x]
  BY DEF TypeOK
<1>2. \A x \in Display :
        /\ phase'[x] = "idle" /\ Steady(x, disp'[x]) /\ Known(x)' /\ Shown(disp'[x])
        /\ ~disp'[x].vflag /\ ~disp'[x].pflag /\ ~disp'[x].hrs /\ disp'[x].rs # "accepted"
        /\ Lit(disp'[x]) => disp'[x].asg = "fresh" \/ geo'
  <2>1. ASSUME NEW x \in Display \ {d}
        PROVE  /\ phase'[x] = "idle" /\ Steady(x, disp'[x]) /\ Shown(disp'[x])
               /\ ~disp'[x].vflag /\ ~disp'[x].pflag /\ ~disp'[x].hrs
               /\ disp'[x].rs # "accepted"
               /\ Lit(disp'[x]) => disp'[x].asg = "fresh" \/ geo'
    BY <1>1, QuietAtRest
  <2>2. /\ phase'[d] = "idle" /\ ~r.vflag /\ ~r.pflag /\ ~r.hrs /\ r.rs # "accepted"
    BY QuietAtRest DEF SameFlags
  <2> QED
    BY <1>1, <2>1, <2>2
<1> QED
  BY <1>2, QuietRests

\* The client's changes to layers.
LEMMA QuietLayerStep ==
    ASSUME TypeOK, Quiet, QuietInv, NEW d \in Display,
           CreateLayer(d) \/ DestroyLayer(d) \/ SetLayerDisplayFrame(d) \/ SetLayerGeometry(d)
    PROVE  QuietInv' /\ \A x \in Display : disp'[x].panel = disp[x].panel
<1>1. ~InRefresh /\ UNCHANGED <<phase, client, hotplug>>
  BY DEF CreateLayer, DestroyLayer, SetLayerDisplayFrame, SetLayerGeometry, MayTouch,
     MayHappen, Quiet
<1>2. disp[d] \in DisplayState /\ \A x \in Display : disp[x] \in DisplayState
  BY DEF TypeOK
<1>3. ASSUME NEW r \in DisplayState, NEW l \in BOOLEAN
      PROVE  /\ Kept(r, Touched(r)) /\ SameFlags(r, Touched(r))
             /\ Touched(r).hrs = r.hrs /\ Touched(r).rs = r.rs /\ Touched(r).panel = r.panel
             /\ Kept(r, [Touched(r) EXCEPT !.layers = l])
             /\ SameFlags(r, [Touched(r) EXCEPT !.layers = l])
             /\ [Touched(r) EXCEPT !.layers = l].hrs = r.hrs
             /\ [Touched(r) EXCEPT !.layers = l].rs = r.rs
             /\ [Touched(r) EXCEPT !.layers = l].panel = r.panel
  <2> DEFINE a == IF r.asg = "fresh" THEN "stale" ELSE r.asg
             t == [r EXCEPT !.asg = a]
  <2>1. Touched(r) = t
    BY DEF Touched
  <2> HIDE DEF a
  <2> QED
    BY <2>1 DEF DisplayState, Kept, SameFlags
<1>5. ASSUME NEW s, disp' = [disp EXCEPT ![d] = s], Kept(disp[d], s), SameFlags(disp[d], s),
             s.hrs = disp[d].hrs, s.rs = disp[d].rs, s.panel = disp[d].panel, geo' = TRUE
      PROVE  QuietInv' /\ \A x \in Display : disp'[x].panel = disp[x].panel
  <2>1. disp'[d] = s /\ \A x \in Display \ {d} : disp'[x] = disp[x]
    BY <1>5 DEF TypeOK
  <2>2. Steady(d, disp[d]) /\ Shown(disp[d])
    BY DEF QuietInv
  <2>3. Steady(d, s) /\ Shown(s)
    BY <1>5, <2>2 DEF Steady, Kept, Shown
  <2>4. \A x \in Display : Known(x)'
    <3>1. \A x \in Display : (Lit(disp'[x]) <=> Lit(disp[x])) /\ disp'[x].hpd = disp[x].hpd
      BY <1>5, <2>1 DEF Kept, Lit
    <3> QED
      BY <1>1, <3>1 DEF QuietInv, Known
  <2>5. QuietInv'
    BY <1>1, <1>5, <2>3, <2>4, QuietRestStep
  <2> QED
    BY <1>5, <2>1, <2>5
<1>6. CASE CreateLayer(d)
  <2>1. disp' = [disp EXCEPT ![d] = [Touched(disp[d]) EXCEPT !.layers = TRUE]] /\ geo' = TRUE
    BY <1>6 DEF CreateLayer, TypeOK
  <2> QED
    BY <1>2, <1>3, <1>5, <2>1
<1>7. CASE DestroyLayer(d)
  <2>1. PICK more \in BOOLEAN :
          disp' = [disp EXCEPT ![d] = [Touched(disp[d]) EXCEPT !.layers = more]] /\ geo' = TRUE
    BY <1>7 DEF DestroyLayer, TypeOK
  <2> QED
    BY <1>2, <1>3, <1>5, <2>1
<1>8. CASE SetLayerGeometry(d)
  <2>1. disp' = [disp EXCEPT ![d] = Touched(disp[d])] /\ geo' = TRUE
    BY <1>8 DEF SetLayerGeometry, TypeOK
  <2> QED
    BY <1>2, <1>3, <1>5, <2>1
<1>9. CASE SetLayerDisplayFrame(d)
  <2>1. PICK moved \in BOOLEAN :
          /\ disp' = [ClearRenderingStateFlags(disp) EXCEPT
                        ![d] = IF moved THEN Touched(@) ELSE @]
          /\ geo' = (geo \/ moved)
    BY <1>9 DEF SetLayerDisplayFrame
  <2> DEFINE c(x) == [disp[x] EXCEPT !.vflag = FALSE, !.pflag = FALSE]
             C == ClearRenderingStateFlags(disp)
  <2>2. ASSUME NEW x \in Display
        PROVE  /\ C[x] = c(x) /\ c(x) \in DisplayState /\ Untouched(disp[x], c(x))
               /\ ~c(x).vflag /\ ~c(x).pflag
    BY <1>2 DEF ClearRenderingStateFlags, Untouched, Kept, DisplayState
  <2>3. \A x \in Display : disp'[x] = IF x = d /\ moved THEN Touched(c(x)) ELSE c(x)
    <3>1. DOMAIN C = Display
      BY DEF ClearRenderingStateFlags
    <3>2. disp' = [C EXCEPT ![d] = IF moved THEN Touched(C[d]) ELSE C[d]]
      BY <2>1, <3>1
    <3>3. \A x \in Display : C[x] = c(x)
      BY <2>2
    <3> HIDE DEF C, c
    <3> QED
      BY <3>1, <3>2, <3>3
  <2> HIDE DEF C, c
  <2>4. ASSUME NEW x \in Display
        PROVE  /\ Kept(disp[x], disp'[x]) /\ ~disp'[x].vflag /\ ~disp'[x].pflag
               /\ disp'[x].hrs = disp[x].hrs /\ disp'[x].rs = disp[x].rs
               /\ disp'[x].panel = disp[x].panel
               /\ ~moved => disp'[x].asg = disp[x].asg
    <3>1. CASE x = d /\ moved
      <4>1. Kept(c(x), Touched(c(x))) /\ SameFlags(c(x), Touched(c(x)))
            /\ Touched(c(x)).hrs = c(x).hrs /\ Touched(c(x)).rs = c(x).rs
            /\ Touched(c(x)).panel = c(x).panel
        BY <1>3, <2>2
      <4> QED
        BY <2>2, <2>3, <3>1, <4>1 DEF Kept, Untouched, SameFlags
    <3>2. CASE ~(x = d /\ moved)
      BY <2>2, <2>3, <3>2 DEF Untouched
    <3> QED
      BY <3>1, <3>2
  <2>5. ASSUME NEW x \in Display
        PROVE  /\ phase'[x] = "idle" /\ Steady(x, disp'[x]) /\ Known(x)' /\ Shown(disp'[x])
               /\ ~disp'[x].vflag /\ ~disp'[x].pflag /\ ~disp'[x].hrs
               /\ disp'[x].rs # "accepted"
               /\ Lit(disp'[x]) => disp'[x].asg = "fresh" \/ geo'
    <3>1. /\ phase[x] = "idle" /\ Steady(x, disp[x]) /\ Known(x) /\ Shown(disp[x])
          /\ ~disp[x].hrs /\ disp[x].rs # "accepted"
          /\ Lit(disp[x]) => disp[x].asg = "fresh" \/ geo
      BY <1>1, QuietAtRest
    <3>2. Lit(disp'[x]) <=> Lit(disp[x])
      BY <2>4 DEF Kept, Lit
    <3>3. Steady(x, disp'[x]) /\ Shown(disp'[x])
      BY <2>4, <3>1 DEF Steady, Kept, Shown
    <3>4. Known(x)'
      BY <1>1, <2>4, <3>1, <3>2 DEF Known, Kept
    <3> QED
      BY <1>1, <2>1, <2>4, <3>1, <3>2, <3>3, <3>4
  <2> QED
    BY <2>4, <2>5, QuietRests
<1> QED
  BY <1>6, <1>7, <1>8, <1>9

\* The client switches a display on.
LEMMA QuietPowerStep ==
    ASSUME TypeOK, Quiet, QuietInv, NEW d \in Display, NEW mode \in PowerMode,
           ClientSetPower(d, mode)
    PROVE  QuietInv' /\ \A x \in Display : disp'[x].panel = disp[x].panel
<1> DEFINE r == disp[d]
           m == IF r.hpd THEN "on" ELSE "off"
           b == r.enabled \/ r.hpd
           s == IF d \in Externals THEN [r EXCEPT !.power = m, !.enabled = b]
                ELSE IF r.power = "on" THEN r ELSE [r EXCEPT !.power = "on"]
<1>1. /\ ~InRefresh /\ mode = "on" /\ hotplug' = hotplug
      /\ d \notin Virtuals /\ client[d] # "absent" /\ r \in DisplayState
      /\ client' = [client EXCEPT ![d] = "on"]
  BY DEF ClientSetPower, MayHappen, Quiet, Display, TypeOK
<1>2. phase' = phase
  <2>1. phase' = [phase EXCEPT ![d] = phase[d]]
    BY <1>1 DEF ClientSetPower
  <2> QED
    BY <2>1 DEF TypeOK
<1>3. PICK fails \in BOOLEAN :
        /\ ~fails /\ disp' = SetPowerMode(disp, geo, d, "on", fails).disp
        /\ geo' = SetPowerMode(disp, geo, d, "on", fails).geo
  <2>1. Failures("driver") = {FALSE}
    BY DEF Failures, Quiet
  <2> QED
    BY <1>1, <2>1 DEF ClientSetPower
<1>4. /\ disp' = [disp EXCEPT ![d] = s]
      /\ geo' = (geo \/ PowerGeometry(d, r, "on", fails))
  <2> DEFINE t == IF d \in Externals THEN SetPowerExternal(r, "on", fails)
                  ELSE SetPowerPrimary(r, "on", fails)
             h == geo \/ PowerGeometry(d, r, "on", fails)
  <2>1. SetPowerMode(disp, geo, d, "on", fails) =
          [disp |-> [disp EXCEPT ![d] = t], geo |-> h]
    BY DEF SetPowerMode
  <2>2. t = s
    <3>1. CASE d \in Externals
      <4>1. ~PowerCallFails(r, "on", fails)
        BY <1>3 DEF PowerCallFails
      <4>2. SetPowerExternal(r, "on", fails) =
              [r EXCEPT !.power = m, !.enabled = b]
        BY <4>1, Zenon DEF SetPowerExternal
      <4> QED
        BY <3>1, <4>2
    <3>2. CASE d \notin Externals
      BY <3>2 DEF SetPowerPrimary
    <3> QED
      BY <3>1, <3>2
  <2> HIDE DEF t, s, h
  <2>3. disp' = [disp EXCEPT ![d] = t]
    <3> DEFINE D == [disp EXCEPT ![d] = t]
    <3>1. SetPowerMode(disp, geo, d, "on", fails) = [disp |-> D, geo |-> h]
      BY <2>1
    <3> HIDE DEF D
    <3>2. SetPowerMode(disp, geo, d, "on", fails).disp = D
      BY <3>1
    <3>3. disp' = D
      BY <1>3, <3>2, Zenon
    <3> QED
      BY <3>3 DEF D
  <2>4. geo' = h
    BY <1>3, <2>1
  <2> QED
    BY <2>2, <2>3, <2>4 DEF h
<1>5. PowerGeometry(d, r, "on", fails) <=> (d \in Externals \/ r.power # "on")
  BY <1>3 DEF PowerGeometry, PowerCallFails
<1>6. /\ s.plug = r.plug /\ s.hpd = r.hpd /\ s.skipPresent = r.skipPresent
      /\ s.skipFrame = r.skipFrame /\ SameFlags(r, s) /\ s.hrs = r.hrs /\ s.rs = r.rs
      /\ s.panel = r.panel /\ s.asg = r.asg
      /\ s.power = IF d \in Externals THEN m ELSE "on"
  <2> HIDE DEF m, b
  <2>1. m \in PowerMode /\ b \in BOOLEAN
    BY DEF m, b, PowerMode
  <2> QED
    BY <1>1, <2>1 DEF DisplayState, SameFlags
<1> HIDE DEF s
<1>7. /\ Steady(d, r) /\ Known(d) /\ Shown(r) /\ (Lit(r) => r.asg = "fresh" \/ geo)
  BY <1>1, QuietAtRest
<1>8. Steady(d, s) /\ Shown(s)
  BY <1>6, <1>7 DEF Steady, Shown
<1>9. Lit(s) => s.asg = "fresh" \/ geo'
  BY <1>4, <1>5, <1>6, <1>7 DEF Lit
<1>10. \A x \in Display : Known(x)'
  <2>1. ASSUME NEW x \in Display \ {d} PROVE Known(x)'
    <3>1. disp'[x] = disp[x] /\ client'[x] = client[x] /\ Known(x)
      BY <1>1, <1>4 DEF QuietInv, TypeOK
    <3> QED
      BY <1>1, <3>1 DEF Known
  <2>2. Known(d)'
    <3>1. disp'[d] = s /\ client'[d] = "on"
      BY <1>1, <1>4 DEF TypeOK
    <3> QED
      BY <1>1, <1>6, <1>7, <3>1 DEF Known, Lit
  <2> QED
    BY <2>1, <2>2
<1>11. QuietInv'
  <2>1. geo => geo'
    BY <1>4
  <2> QED
    BY <1>1, <1>2, <1>4, <1>6, <1>8, <1>9, <1>10, <2>1, QuietRestStep
<1> QED
  BY <1>1, <1>4, <1>6, <1>11 DEF TypeOK

\* The critical sections of the event thread.
LEMMA QuietHotplugStep ==
    ASSUME TypeOK, Quiet, QuietInv, NEW d \in Display, HandleHotplug(d)
    PROVE  /\ QuietInv'
           /\ \A x \in Display : disp'[x].panel \in {"blank", disp[x].panel}
<1> DEFINE r == disp[d]
           c == CloseExternalDisplay(r, FALSE, FALSE)
           o == OpenExternalDisplay(r, FALSE)
           s == IF r.hpd THEN c ELSE o
<1>1. /\ ~InRefresh /\ d \in Externals /\ hotplug[d] = "idle" /\ r \in DisplayState
      /\ UNCHANGED <<geo, phase, client>>
      /\ hotplug' = [hotplug EXCEPT ![d] = IF r.hpd THEN "unplugged" ELSE "plugged"]
      /\ d \notin Primaries
  BY KindAssumption DEF HandleHotplug, MayHappen, Quiet, TypeOK
<1>2. disp' = [disp EXCEPT ![d] = s]
  <2>1. Failures("driver") = {FALSE}
    BY DEF Failures, Quiet
  <2> QED
    BY <2>1 DEF HandleHotplug, TypeOK
<1>3. /\ Steady(d, r) /\ Known(d) /\ Shown(r)
  BY <1>1, QuietAtRest
<1>4. CASE r.hpd
  <2> DEFINE g == [r EXCEPT !.hpd = FALSE]
             k == IF g.startLeft = 0 THEN [g EXCEPT !.panel = "blank"] ELSE g
  <2>1. /\ k \in DisplayState /\ k.hpd = FALSE /\ k.skipPresent = r.skipPresent
        /\ k.skipFrame = r.skipFrame /\ SameFlags(r, k) /\ k.hrs = r.hrs /\ k.rs = r.rs
        /\ k.panel \in {"blank", r.panel}
    BY <1>1 DEF DisplayState, SameFlags
  <2>2. Disable(g, FALSE) = [k EXCEPT !.enabled = FALSE, !.power = "off"]
    BY <1>1 DEF Disable, DisplayState
  <2> HIDE DEF g, k
  <2>3. c = [k EXCEPT !.enabled = FALSE, !.power = "off", !.plug = FALSE]
    BY <2>1, <2>2 DEF CloseExternalDisplay, DisplayState, g
  <2>4. s = c
    BY <1>4
  <2> HIDE DEF c, s
  <2>5. /\ s.plug = FALSE /\ s.hpd = FALSE /\ s.power = "off" /\ s.skipPresent = r.skipPresent
        /\ s.skipFrame = r.skipFrame /\ SameFlags(r, s) /\ s.hrs = r.hrs /\ s.rs = r.rs
        /\ s.panel \in {"blank", r.panel}
    BY <2>1, <2>3, <2>4 DEF DisplayState, SameFlags
  <2>6. Steady(d, s) /\ Shown(s) /\ ~Lit(s)
    BY <1>1, <1>3, <2>5 DEF Steady, Shown, Lit
  <2>7. \A x \in Display : Known(x)'
    <3>1. ASSUME NEW x \in Display \ {d} PROVE Known(x)'
      <4>1. disp'[x] = disp[x] /\ client'[x] = client[x] /\ Known(x)
            /\ (x \in Externals => hotplug'[x] = hotplug[x])
        BY <1>1, <1>2 DEF QuietInv, TypeOK
      <4> QED
        BY <4>1 DEF Known
    <3>2. disp'[d] = s /\ hotplug'[d] = "unplugged"
      BY <1>1, <1>2, <1>4 DEF TypeOK
    <3>3. Known(d)'
      BY <2>5, <2>6, <3>2 DEF Known
    <3> QED
      BY <3>1, <3>3
  <2>8. QuietInv'
    BY <1>1, <1>2, <2>5, <2>6, <2>7, QuietRestStep
  <2> QED
    BY <1>2, <2>5, <2>8 DEF TypeOK
<1>5. CASE ~r.hpd
  <2>1. s = [r EXCEPT !.hpd = TRUE, !.plug = TRUE, !.startLeft = ExtStart, !.layers = FALSE]
    BY <1>5 DEF OpenExternalDisplay
  <2> HIDE DEF s
  <2>2. /\ s.plug = TRUE /\ s.hpd = TRUE /\ s.power = r.power /\ s.skipPresent = r.skipPresent
        /\ s.skipFrame = r.skipFrame /\ SameFlags(r, s) /\ s.hrs = r.hrs /\ s.rs = r.rs
        /\ s.panel = r.panel
    BY <1>1, <2>1 DEF DisplayState, SameFlags
  <2>3. Steady(d, s) /\ Shown(s) /\ ~Lit(s)
    BY <1>1, <1>3, <1>5, <2>2 DEF Steady, Shown, Lit
  <2>4. \A x \in Display : Known(x)'
    <3>1. ASSUME NEW x \in Display \ {d} PROVE Known(x)'
      <4>1. disp'[x] = disp[x] /\ client'[x] = client[x] /\ Known(x)
            /\ (x \in Externals => hotplug'[x] = hotplug[x])
        BY <1>1, <1>2 DEF QuietInv, TypeOK
      <4> QED
        BY <4>1 DEF Known
    <3>2. disp'[d] = s /\ hotplug'[d] = "plugged" /\ client'[d] = client[d]
      BY <1>1, <1>2, <1>5 DEF TypeOK
    <3>3. client[d] = "absent"
      BY <1>1, <1>3, <1>5 DEF Known
    <3>4. Known(d)'
      BY <2>2, <2>3, <3>2, <3>3 DEF Known
    <3> QED
      BY <3>1, <3>4
  <2>5. QuietInv'
    BY <1>1, <1>2, <2>2, <2>3, <2>4, QuietRestStep
  <2> QED
    BY <1>2, <2>2, <2>5 DEF TypeOK
<1> QED
  BY <1>4, <1>5

\* The steps of the event thread and of the client on the client's own state.
LEMMA QuietClientSide ==
    ASSUME TypeOK, Quiet, QuietInv, NEW d \in Display,
           HandleHotplugVirtual(d) \/ ClientHotplug(d)
    PROVE  QuietInv' /\ \A x \in Display : disp'[x].panel = disp[x].panel
<1>1. /\ disp' = disp /\ geo' = geo /\ d \in Externals
      /\ \A x \in Display \ {d} :
           client'[x] = client[x] /\ (x \in Externals => hotplug'[x] = hotplug[x])
  <2>1. CASE HandleHotplugVirtual(d)
    <3>1. disp' = [x \in Display |-> disp[x]]
      BY <2>1 DEF HandleHotplugVirtual, Quiet
    <3>2. ~\E x \in Virtuals : disp[x].plug
      BY DEF Quiet
    <3>3. geo' = (geo \/ (UseDpu /\ \E x \in Virtuals : disp[x].plug))
      BY <2>1 DEF HandleHotplugVirtual
    <3>4. geo' = geo
      BY <3>2, <3>3 DEF TypeOK
    <3> QED
      BY <2>1, <3>1, <3>4 DEF HandleHotplugVirtual, TypeOK
  <2>2. CASE ClientHotplug(d)
    BY <2>2 DEF ClientHotplug, TypeOK
  <2> QED
    BY <2>1, <2>2
<1>2. \A x \in Display \ {d} : Known(x)'
  BY <1>1 DEF QuietInv, Known
<1>3. ~InRefresh
  BY DEF HandleHotplugVirtual, ClientHotplug, MayHappen, Quiet
<1>4. Known(d) /\ Steady(d, disp[d])
  BY DEF QuietInv
<1>5. Known(d)'
  <2>1. CASE HandleHotplugVirtual(d)
    <3>1. /\ hotplug[d] \in {"plugged", "unplugged"}
          /\ hotplug'[d] = "told" /\ client'[d] = client[d]
      BY <1>1, <2>1 DEF HandleHotplugVirtual, Handling, TypeOK
    <3> QED
      BY <1>1, <1>4, <3>1 DEF Known
  <2>2. CASE ClientHotplug(d)
    <3>1. /\ hotplug[d] = "told" /\ hotplug'[d] = "idle"
          /\ client'[d] = IF disp[d].hpd THEN "off" ELSE "absent"
      BY <1>1, <2>2 DEF ClientHotplug, TypeOK
    <3>2. ~Lit(disp[d])
      BY <1>1, <1>4, <3>1 DEF Known, Steady, Lit
    <3> QED
      BY <1>1, <3>1, <3>2 DEF Known
  <2> QED
    BY <2>1, <2>2
<1>6. \A x \in Display : phase'[x] = phase[x]
  <2>1. \A x \in Display : phase[x] = "idle"
    BY <1>3, QuietAtRest
  <2> QED
    BY <2>1 DEF HandleHotplugVirtual, ClientHotplug, TypeOK
<1>7. \A x \in Display : Waiting(phase'[x], disp'[x])
  BY <1>1, <1>6 DEF QuietInv
<1>8. Progress(disp', phase')
  BY <1>1, <1>6 DEF QuietInv, Progress
<1>9. \A x \in Display : Known(x)'
  BY <1>2, <1>5
<1> QED
  BY <1>1, <1>7, <1>8, <1>9 DEF QuietInv

\* The client accepts the changes of a validated display.
LEMMA QuietAccept ==
    ASSUME TypeOK, QuietInv, NEW d \in Display, Accept(d)
    PROVE  QuietInv' /\ \A x \in Display : disp'[x].panel = disp[x].panel
<1> DEFINE r == disp[d]
           s == [r EXCEPT !.rs = "accepted", !.hrs = FALSE]
<1>1. /\ r \in DisplayState /\ Waiting(phase[d], r) /\ Assigned(d, r, geo) /\ Shown(r)
      /\ phase[d] = "validated" /\ UNCHANGED <<geo, client, hotplug>>
  BY DEF TypeOK, QuietInv, Accept
<1>2. r.rs = "validated"
  BY <1>1 DEF Waiting
<1>3. disp' = [disp EXCEPT ![d] = s] /\ phase' = [phase EXCEPT ![d] = "accepted"]
  BY <1>2 DEF Accept, AcceptDisplayChanges
<1>4. /\ Kept(r, s) /\ SameFlags(r, s) /\ s.rs = "accepted" /\ s.asg = r.asg
      /\ s.panel = r.panel
  BY <1>1 DEF DisplayState, Kept, SameFlags
<1> HIDE DEF s
<1>5. Waiting("accepted", s) /\ Assigned(d, s, geo') /\ Shown(s)
  BY <1>1, <1>4 DEF Waiting, Assigned, Shown, Kept, SameFlags, Lit
<1>6. "accepted" \in Phase
  BY DEF Phase
<1>7. QuietInv'
  BY <1>1, <1>3, <1>4, <1>5, <1>6, QuietOneDisplay DEF SameFlags
<1> QED
  BY <1>3, <1>4, <1>7 DEF TypeOK

\* A refresh begins when the one before has ended.
LEMMA QuietBegin ==
    ASSUME TypeOK, QuietInv, BeginRefresh
    PROVE  QuietInv'
<1>1. \A x \in Display : phase[x] = "idle"
  BY DEF BeginRefresh, QuietInv, Waiting
<1>2. UNCHANGED <<disp, geo, client, hotplug>>
      /\ phase' = [x \in Display |-> IF client[x] = "on" THEN "todo" ELSE "idle"]
  BY DEF BeginRefresh
<1>3. FlagsCleared(disp)
  BY <1>1 DEF QuietInv, Progress
<1>4. \A x \in Display : Waiting(phase'[x], disp'[x])
  <2>1. ASSUME NEW x \in Display PROVE Waiting(phase'[x], disp[x])
    <3>1. Waiting("idle", disp[x])
      BY <1>1 DEF QuietInv
    <3> QED
      BY <1>2, <3>1 DEF Waiting
  <2> QED
    BY <1>2, <2>1
<1>5. Progress(disp', phase')
  <2>1. \A x \in Display : Lit(disp[x]) => phase'[x] # "idle"
    BY <1>2 DEF QuietInv, Known
  <2>2. \A x \in Display : ~disp[x].pflag
    BY <1>3 DEF FlagsCleared
  <2> QED
    BY <1>2, <1>3, <2>1, <2>2 DEF Progress
<1>6. \A x \in Display : Known(x)'
  BY <1>2 DEF QuietInv, Known
<1> QED
  BY <1>2, <1>4, <1>5, <1>6 DEF QuietInv

\* Every step of a quiet device keeps the invariant and hides start frames.
LEMMA QuietStep ==
    ASSUME TypeOK, Quiet, QuietInv, Next
    PROVE  QuietInv' /\ \A x \in Externals : Shows(x) => disp[x].startLeft = 0
<1> DEFINE Goal == QuietInv' /\ \A x \in Externals : Shows(x) => disp[x].startLeft = 0
<1> SUFFICES Goal
  OBVIOUS
<1>1. ASSUME QuietInv', \A x \in Display : disp'[x].panel \in {"blank", disp[x].panel}
      PROVE  Goal
  BY <1>1 DEF Shows, Display
<1>2. Failures("present") = {FALSE} /\ Failures("assign") = {FALSE}
      /\ FailedSteps = [Display -> {"none"}]
  BY DEF Failures, FailedSteps, Quiet
<1> HIDE DEF Goal
<1>3. CASE BeginRefresh
  BY <1>1, <1>3, QuietBegin DEF BeginRefresh
<1>4. ASSUME NEW d \in Display, TryPresent(d) PROVE Goal
  <2>1. phase[d] = "todo" /\ UNCHANGED <<client, hotplug>>
    BY <1>4 DEF TryPresent
  <2>2. PICK content \in Content, c \in BOOLEAN, f \in BOOLEAN : \E p :
          /\ ~c /\ ~f /\ p = PresentDisplay(disp, geo, d, content, c, f)
          /\ disp' = p.disp /\ geo' = p.geo
          /\ phase' = [phase EXCEPT ![d] = IF p.ret = "NONE" THEN "idle" ELSE "mustValidate"]
    BY <1>2, <1>4 DEF TryPresent
  <2>3. PICK p :
          /\ ~c /\ ~f /\ p = PresentDisplay(disp, geo, d, content, c, f)
          /\ disp' = p.disp /\ geo' = p.geo
          /\ phase' = [phase EXCEPT ![d] = IF p.ret = "NONE" THEN "idle" ELSE "mustValidate"]
    BY <2>2
  <2>4. /\ p.ret = "NONE" => phase' = [phase EXCEPT ![d] = "idle"]
        /\ p.ret # "NONE" => phase' = [phase EXCEPT ![d] = "mustValidate"]
    BY <2>3
  <2> QED
    BY <2>1, <2>3, <2>4, QuietPresent DEF Goal
<1>5. ASSUME NEW d \in Display, Present(d) PROVE Goal
  <2>1. phase[d] = "accepted" /\ UNCHANGED <<client, hotplug>>
    BY <1>5 DEF Present
  <2>2. PICK content \in Content, c \in BOOLEAN, f \in BOOLEAN : \E p :
          /\ ~c /\ ~f /\ p = PresentDisplay(disp, geo, d, content, c, f)
          /\ disp' = p.disp /\ geo' = p.geo
          /\ phase' = [phase EXCEPT ![d] =
                         IF p.ret = "NOT_VALIDATED" THEN "rejected" ELSE "idle"]
    BY <1>2, <1>5 DEF Present
  <2>3. PICK p :
          /\ ~c /\ ~f /\ p = PresentDisplay(disp, geo, d, content, c, f)
          /\ disp' = p.disp /\ geo' = p.geo
          /\ phase' = [phase EXCEPT ![d] =
                         IF p.ret = "NOT_VALIDATED" THEN "rejected" ELSE "idle"]
    BY <2>2
  <2>4. p.ret = "NONE" => phase' = [phase EXCEPT ![d] = "idle"]
    BY <2>3
  <2> QED
    BY <2>1, <2>3, <2>4, QuietPresent DEF Goal
<1>6. ASSUME NEW d \in Display, Validate(d) PROVE Goal
  <2>1. phase[d] \in {"todo", "mustValidate"} /\ UNCHANGED <<client, hotplug>>
    BY <1>6 DEF Validate
  <2>2. PICK changed \in BOOLEAN, prep \in BOOLEAN, failed \in [Display -> {"none"}] : \E v :
          /\ ~prep /\ v = ValidateDisplay(disp, geo, d, changed, prep, failed)
          /\ disp' = v.disp /\ geo' = v.geo
          /\ phase' = [phase EXCEPT ![d] = IF v.ret = "NONE" THEN "validated" ELSE "idle"]
    BY <1>2, <1>6 DEF Validate
  <2>3. PICK v :
          /\ ~prep /\ v = ValidateDisplay(disp, geo, d, changed, prep, failed)
          /\ disp' = v.disp /\ geo' = v.geo
          /\ phase' = [phase EXCEPT ![d] = IF v.ret = "NONE" THEN "validated" ELSE "idle"]
    BY <2>2
  <2>4. QuietInv' /\ \A x \in Display : disp'[x].panel = disp[x].panel
    BY <2>1, <2>3, QuietValidate
  <2> QED
    BY <1>1, <2>4
<1>7. ASSUME NEW d \in Display, Accept(d) PROVE Goal
  BY <1>1, <1>7, QuietAccept
<1>8. ASSUME NEW d \in Display, NEW mode \in PowerMode, ClientSetPower(d, mode)
      PROVE  Goal
  BY <1>1, <1>8, QuietPowerStep
<1>9. ASSUME NEW d \in Display,
             CreateLayer(d) \/ DestroyLayer(d) \/ SetLayerDisplayFrame(d) \/ SetLayerGeometry(d)
      PROVE  Goal
  BY <1>1, <1>9, QuietLayerStep
<1>10. ASSUME NEW d \in Display, HandleHotplugVirtual(d) \/ ClientHotplug(d) PROVE Goal
  BY <1>1, <1>10, QuietClientSide
<1>11. ASSUME NEW d \in Display, HandleHotplug(d) PROVE Goal
  BY <1>1, <1>11, QuietHotplugStep
<1>12. ASSUME NEW d \in Display,
              ClientCreateVirtual(d) \/ ClientDestroyVirtual(d) \/ SetWFDMode(d)
       PROVE  Goal
  BY <1>12 DEF ClientCreateVirtual, ClientDestroyVirtual, SetWFDMode, Quiet
<1>13. CASE ClientNext
  BY <1>3, <1>4, <1>5, <1>6, <1>7, <1>8, <1>9, <1>10, <1>12, <1>13 DEF ClientNext
<1> QED
  BY <1>10, <1>11, <1>12, <1>13 DEF Next

\* The invariant of a quiet device.
LEMMA QuietInvariant ==
    ASSUME Quiet
    PROVE  Spec => []QuietInv
<1>1. Init => QuietInv
  <2> SUFFICES ASSUME Init PROVE QuietInv
    OBVIOUS
  <2>1. ASSUME NEW x \in Display
        PROVE  /\ phase[x] = "idle"
               /\ client[x] = IF x \in Primaries THEN "off" ELSE "absent"
               /\ x \in Externals => hotplug[x] = "idle"
               /\ disp[x].plug <=> x \in Primaries
               /\ disp[x].plug \in BOOLEAN /\ disp[x].hpd = FALSE /\ disp[x].power = "off"
               /\ disp[x].rs = "none" /\ disp[x].hrs = FALSE
               /\ disp[x].vflag = FALSE /\ disp[x].pflag = FALSE
               /\ disp[x].skipPresent = FALSE /\ disp[x].skipFrame = FALSE
               /\ disp[x].panel = "blank"
    <3> DEFINE b == x \in Primaries
               n == IF x \in Externals THEN ExtStart ELSE 0
    <3>1. disp[x] = InitDisplayState(x) /\ b \in BOOLEAN
      BY DEF Init
    <3>2. disp[x] = [plug |-> b, hpd |-> FALSE, power |-> "off", enabled |-> FALSE,
                     rs |-> "none", hrs |-> FALSE, vflag |-> FALSE, pflag |-> FALSE,
                     skipPresent |-> FALSE, skipVP |-> FALSE, skipFrame |-> FALSE,
                     startLeft |-> n, layers |-> FALSE,
                     wfd |-> FALSE, extPlug |-> FALSE, firstShown |-> FALSE,
                     asg |-> "none", panel |-> "blank"]
      BY <3>1 DEF InitDisplayState
    <3>3. /\ phase[x] = "idle"
          /\ client[x] = IF x \in Primaries THEN "off" ELSE "absent"
          /\ x \in Externals => hotplug[x] = "idle"
      BY DEF Init
    <3> HIDE DEF b, n
    <3>4. /\ disp[x].plug = b
          /\ disp[x].hpd = FALSE /\ disp[x].power = "off"
          /\ disp[x].rs = "none" /\ disp[x].hrs = FALSE
          /\ disp[x].vflag = FALSE /\ disp[x].pflag = FALSE
          /\ disp[x].skipPresent = FALSE /\ disp[x].skipFrame = FALSE
          /\ disp[x].panel = "blank"
      BY <3>2
    <3> QED
      BY <3>1, <3>3, <3>4 DEF b
  <2>2. \A x \in Display : Steady(x, disp[x]) /\ Known(x) /\ Shown(disp[x])
    BY <2>1, KindAssumption DEF Steady, Known, Shown, Lit
  <2>3. \A x \in Display : Waiting(phase[x], disp[x]) /\ Assigned(x, disp[x], geo)
    BY <2>1 DEF Waiting, Assigned, Lit
  <2>4. Uniform(disp) /\ FlagsCleared(disp)
    BY <2>1 DEF Uniform, FlagsCleared
  <2>5. Progress(disp, phase)
    BY <2>1, <2>4 DEF Progress
  <2> QED
    BY <2>2, <2>3, <2>4, <2>5 DEF QuietInv
<1>2. TypeOK /\ QuietInv /\ [Next]_vars => QuietInv'
  <2>1. ASSUME TypeOK, QuietInv, Next PROVE QuietInv'
    BY <2>1, QuietStep
  <2>2. ASSUME QuietInv, UNCHANGED vars PROVE QuietInv'
    <3>1. disp' = disp /\ geo' = geo /\ phase' = phase /\ client' = client /\ hotplug' = hotplug
      BY <2>2 DEF vars
    <3> QED
      BY <2>2, <3>1 DEF QuietInv, Known
  <2> QED
    BY <2>1, <2>2
<1> QED
  BY Typing, <1>1, <1>2, PTL DEF Spec

\* On a quiet device no display shows a frame whose assignment was reset.
THEOREM QuietPanelsAssigned ==
    ASSUME Quiet
    PROVE  Spec => []PanelAssigned
<1>1. QuietInv => PanelAssigned
  BY DEF QuietInv, Shown, PanelAssigned
<1> QED
  BY <1>1, QuietInvariant, PTL

\* On a quiet device no display shows a frame that a layer change has outdated.
THEOREM QuietPanelsFresh ==
    ASSUME Quiet
    PROVE  Spec => []PanelFresh
<1>1. QuietInv => PanelFresh
  BY DEF QuietInv, Shown, PanelFresh
<1> QED
  BY <1>1, QuietInvariant, PTL

\* On a quiet device the geometry flag remembers, between two frames, every
\* change that no assignment has taken into account.
THEOREM QuietGeometryKept ==
    ASSUME Quiet
    PROVE  Spec => []NoLostGeometry
<1>1. QuietInv => NoLostGeometry
  BY DEF QuietInv, Assigned, FlagsCleared, NoLostGeometry, Inactive, Lit, Quiet
<1> QED
  BY <1>1, QuietInvariant, PTL

\* On a quiet device the start frames of an external display are not shown.
THEOREM QuietStartFramesHidden ==
    ASSUME Quiet
    PROVE  Spec => StartFramesHidden
<1> DEFINE Hidden == \A d \in Externals : Shows(d) => disp[d].startLeft = 0
<1>1. TypeOK /\ QuietInv /\ [Next]_vars => [Hidden]_vars
  BY QuietStep
<1> QED
  BY Typing, QuietInvariant, <1>1, PTL DEF Spec, StartFramesHidden

-----------------------------------------------------------------------------
(***************************************************************************)
(* A display that is off is blank                                          *)
(***************************************************************************)

\* Nothing is left on an external display that cannot show a frame, and primary
\* displays stay plugged.
BlankInv ==
    /\ \A d \in Externals : ExternalBlank(disp[d])
    /\ \A d \in Primaries : disp[d].plug

\* The step shows no start frame.
Hidden == \A d \in Externals : Shows(d) => disp[d].startLeft = 0

LEMMA InitBlank == Init => BlankInv
<1> SUFFICES ASSUME Init PROVE BlankInv
  OBVIOUS
<1>1. ASSUME NEW d \in Externals PROVE disp[d].panel = "blank"
  BY DEF Init, InitDisplayState, Display
<1>2. ASSUME NEW d \in Primaries PROVE disp[d].plug
  BY DEF Init, InitDisplayState, Display
<1> QED
  BY <1>1, <1>2 DEF BlankInv, ExternalBlank

\* A step that shows no start frame keeps it.
LEMMA BlankStep ==
    ASSUME TypeOK, BlankInv, Next, Hidden
    PROVE  BlankInv'
<1>1. \A x \in Display : PanelStep(x, disp[x], disp'[x])
  BY StepFacts DEF StepOK
<1>2. ASSUME NEW d \in Externals PROVE ExternalBlank(disp'[d])
  BY <1>1 DEF Hidden, Shows, PanelStep, BlankInv, Display
<1>3. ASSUME NEW d \in Primaries PROVE disp'[d].plug
  BY <1>1 DEF PanelStep, BlankInv, Display
<1> QED
  BY <1>2, <1>3 DEF BlankInv

LEMMA BlankUnchanged == BlankInv /\ UNCHANGED vars => BlankInv'
<1> SUFFICES ASSUME BlankInv, UNCHANGED vars PROVE BlankInv'
  OBVIOUS
<1>1. disp' = disp
  BY DEF vars
<1> QED
  BY <1>1 DEF BlankInv

LEMMA BlankSuffices == BlankInv /\ PrimaryOffIsBlank => OffIsBlank
BY DEF BlankInv, ExternalBlank, PrimaryOffIsBlank, OffIsBlank, Display

\* As long as no start frame is shown, a primary or external display that is off
\* or unplugged shows nothing, whatever is presented, plugged, powered or fails
\* in whatever order: a frame left on the panel is the one that a display still
\* skipping its start frames was not cleared of (disable).
THEOREM OffAreBlank == Spec /\ StartFramesHidden => []OffIsBlank
<1>1. TypeOK /\ BlankInv /\ [Next]_vars /\ [Hidden]_vars => BlankInv'
  BY BlankStep, BlankUnchanged
<1>2. StartFramesHidden <=> [][Hidden]_vars
  BY DEF StartFramesHidden, Hidden
<1> QED
  BY Typing, PrimariesOffAreBlank, InitBlank, <1>1, <1>2, BlankSuffices, PTL DEF Spec

\* The same of a device that skips no start frames.
THEOREM OffAreBlankWithoutStartFrames ==
    ASSUME ExtStart = 0
    PROVE  Spec => []OffIsBlank
<1> DEFINE None == \A d \in Externals : disp[d].startLeft = 0
<1>1. Init => None
  BY DEF Init, InitDisplayState, Display
<1>2. TypeOK /\ None /\ [Next]_vars => None'
  <2>1. ASSUME TypeOK, None, Next PROVE None'
    <3>1. \A x \in Display : PanelStep(x, disp[x], disp'[x])
      BY <2>1, StepFacts DEF StepOK
    <3> QED
      BY <2>1, <3>1 DEF PanelStep, Display
  <2>2. ASSUME None, UNCHANGED vars PROVE None'
    BY <2>2 DEF vars
  <2> QED
    BY <2>1, <2>2
<1>3. None => [Hidden]_vars
  BY DEF Hidden
<1>4. TypeOK /\ BlankInv /\ [Next]_vars /\ [Hidden]_vars => BlankInv'
  BY BlankStep, BlankUnchanged
<1> HIDE DEF None
<1> QED
  BY Typing, PrimariesOffAreBlank, InitBlank, <1>1, <1>2, <1>3, <1>4, BlankSuffices, PTL
     DEF Spec

\* On a quiet device a display that is off is blank, start frames or not.
THEOREM QuietOffAreBlank ==
    ASSUME Quiet
    PROVE  Spec => []OffIsBlank
BY OffAreBlank, QuietStartFramesHidden, PTL
====
