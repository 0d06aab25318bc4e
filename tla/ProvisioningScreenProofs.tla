---------------------- MODULE ProvisioningScreenProofs ----------------------
(***************************************************************************)
(* Theorems about ProvisioningScreen, for any number of nodes, images and  *)
(* runs.                                                                   *)
(*                                                                         *)
(* A run may be taken in by another run's events only while both are       *)
(* unfinished, and two unfinished runs are both crowded (Apart): that is   *)
(* the strengthening DoneIsEarned needs, with what is known of a run at    *)
(* each place it can be (Placed).                                          *)
(***************************************************************************)
EXTENDS ProvisioningScreen, TLAPS

\* What a place says about a run.
Placed ==
  \A r \in Run :
    /\ pc[r] = "unborn" => exec[r] = "none" /\ outcome[r] = "none"
    /\ pc[r] \in {"image", "asking"} => pump[r] = "none"
    /\ pc[r] = "unborn" => pump[r] = "none"
    /\ Tracking(r) => pc[r] \in {"racing", "stopping"}
    /\ pc[r] = "stopping" => outcome[r] \in {"done", "error"}

\* Two unfinished runs know of each other.
Apart ==
  \A x, r \in Run : x # r /\ Unfinished(x) /\ Unfinished(r) => r \in crowded

\* A run that was alone has seen only its own execution.
SeenIsOwn == \A r \in Run : r \notin crowded => seen[r] \subseteq reported[r]

Inv == TypeOK /\ Placed /\ SpinnerHasRun /\ Apart /\ SeenIsOwn /\ DoneIsEarned

-----------------------------------------------------------------------------
LEMMA InitTypes == Init => TypeOK
<1>1. 0 \in 0..MaxImages
  BY ScreenAssumption
<1>2. Init => /\ phase \in Phase /\ pc \in [Run -> Pc] /\ pump \in [Run -> Pump]
              /\ outcome \in [Run -> Outcome] /\ abort \in [Run -> AbortPc]
              /\ exec \in [Run -> Exec] /\ images \in [Run -> 0..MaxImages]
  BY <1>1 DEF Init, Phase, Pc, Pump, Outcome, AbortPc, Exec
<1>3. Init => /\ nodes \in [Run -> SUBSET Node] /\ seen \in [Run -> SUBSET Node]
              /\ reported \in [Run -> SUBSET Node]
  BY DEF Init
<1> QED
  BY <1>2, <1>3 DEF Init, TypeOK

LEMMA InitInv == Init => Inv
<1> SUFFICES ASSUME Init PROVE Inv
  OBVIOUS
<1>1. TypeOK
  BY InitTypes
<1>2. Placed /\ SpinnerHasRun
  BY DEF Init, Placed, SpinnerHasRun, Tracking
<1>3. Apart
  BY DEF Init, Apart, Unfinished, Live
<1>4. SeenIsOwn /\ DoneIsEarned
  BY DEF Init, SeenIsOwn, DoneIsEarned
<1> QED
  BY <1>1, <1>2, <1>3, <1>4 DEF Inv

-----------------------------------------------------------------------------
(* Types.                                                                  *)

\* What settling a run does to what it shares and to itself.
LEMMA SettleTypes ==
  ASSUME TypeOK, NEW r \in Run, NEW how \in {"done", "error"}, Settle(r, how)
  PROVE  /\ phase' \in Phase /\ phase' # "running" /\ runId' \in Run \cup {NoRun}
         /\ pc' \in [Run -> Pc] /\ outcome' \in [Run -> Outcome]
         /\ pc'[r] = "over" /\ outcome'[r] = how
         /\ \A x \in Run \ {r} : pc'[x] = pc[x] /\ outcome'[x] = outcome[x]
  BY DEF TypeOK, Settle, Phase, Pc, Outcome

LEMMA CallTypes ==
  ASSUME TypeOK, NEW r \in Run, NEW await \in {"image", "asking"},
         Call(r, await)
  PROVE  /\ phase' \in Phase /\ runId' \in Run \cup {NoRun}
         /\ pc' \in [Run -> Pc] /\ outcome' \in [Run -> Outcome]
         /\ \A x \in Run \ {r} : pc'[x] = pc[x] /\ outcome'[x] = outcome[x]
         /\ \/ /\ pc'[r] = await /\ outcome'[r] = outcome[r] /\ phase' = phase
            \/ pc'[r] = "over" /\ outcome'[r] = "error" /\ phase' # "running"
<1>1. CASE up
  BY <1>1 DEF TypeOK, Call, Pc
<1>2. CASE ~up
  BY <1>2, SettleTypes DEF Call
<1> QED
  BY <1>1, <1>2

\* The runs that end with an event have an outcome.
LEMMA EndTypes ==
  ASSUME TypeOK, NEW ending \in SUBSET Run, End(ending),
         outcome' \in [Run -> Outcome],
         \A r \in ending : outcome'[r] \in {"done", "error"}
  PROVE  /\ phase' \in Phase /\ runId' \in Run \cup {NoRun}
         /\ pc' \in [Run -> Pc]
         /\ \A r \in Run : pc'[r] = IF r \in ending THEN "over" ELSE pc[r]
         /\ ending = {} => phase' = phase
         /\ ending # {} => phase' # "running"
  BY DEF TypeOK, End, Phase, Pc, Outcome

LEMMA HeardTypes ==
  /\ Heard \subseteq Run /\ Woken \subseteq Heard
  /\ \A n : Completed(n) \subseteq Heard \ Woken
  /\ \A r \in Heard : subscribed /\ Tracking(r)
  /\ \A r \in Woken : pc[r] = "stopping"
  /\ \A r \in Heard \ Woken : pc[r] # "stopping"
  BY DEF Heard, Woken, Completed

\* A woken run has an outcome, and keeps it.
LEMMA WokenDecided ==
  ASSUME Placed PROVE \A r \in Woken : outcome[r] \in {"done", "error"}
  BY HeardTypes DEF Placed

-----------------------------------------------------------------------------
(* Steps that touch no run, or only where one run is.                      *)

\* A step that changes only the screen, to a phase other than running, or
\* not at all, and the flags.
LEMMA ScreenStep ==
  ASSUME Inv, UNCHANGED <<runVars, exec, reported, crowded, latest>>,
         TypeOK', phase' # "running" \/ phase' = phase
  PROVE  Inv'
<1>1. Placed' /\ SpinnerHasRun'
  BY DEF Inv, Placed, SpinnerHasRun, Tracking, runVars
<1>2. Apart' /\ SeenIsOwn' /\ DoneIsEarned'
  BY DEF Inv, Apart, SeenIsOwn, DoneIsEarned, Unfinished, Live, runVars
<1> QED
  BY <1>1, <1>2 DEF Inv

\* A step that finishes runs or moves them within their lives, gives no run
\* the outcome done, and reports nothing.
LEMMA RunStep ==
  ASSUME Inv, TypeOK', Placed', SpinnerHasRun',
         UNCHANGED <<nodes, seen, reported, crowded>>,
         \A r \in Run : Unfinished(r)' => Unfinished(r),
         \A r \in Run : outcome'[r] = "done" /\ r \notin crowded =>
                          outcome[r] = "done" \/ nodes[r] \subseteq reported[r]
  PROVE  Inv'
<1>1. Apart'
  BY DEF Inv, Apart
<1>2. SeenIsOwn' /\ DoneIsEarned'
  BY DEF Inv, SeenIsOwn, DoneIsEarned
<1> QED
  BY <1>1, <1>2 DEF Inv

-----------------------------------------------------------------------------
(* One lemma per action.                                                   *)

LEMMA AcknowledgeStays == Inv /\ Acknowledge => Inv'
<1> SUFFICES ASSUME Inv, Acknowledge PROVE Inv'
  OBVIOUS
<1>1. TypeOK'
  BY DEF Inv, Acknowledge, TypeOK, Phase, runVars, engine
<1> QED
  BY <1>1, ScreenStep DEF Acknowledge, engine

LEMMA AbortStays == Inv /\ Abort => Inv'
<1> SUFFICES ASSUME Inv, Abort PROVE Inv'
  OBVIOUS
<1>1. TypeOK'
  BY DEF Inv, Abort, TypeOK, AbortPc, runVars, engine
<1> QED
  BY <1>1, ScreenStep DEF Abort, engine

LEMMA CancelAnsweredStays ==
  ASSUME NEW r \in Run PROVE Inv /\ CancelAnswered(r) => Inv'
<1> SUFFICES ASSUME Inv, CancelAnswered(r) PROVE Inv'
  OBVIOUS
<1>1. TypeOK'
  BY DEF Inv, CancelAnswered, TypeOK, AbortPc, screen, runVars, engine
<1> QED
  BY <1>1, ScreenStep DEF CancelAnswered, screen, engine

LEMMA GraceOverStays ==
  ASSUME NEW r \in Run PROVE Inv /\ GraceOver(r) => Inv'
<1> SUFFICES ASSUME Inv, GraceOver(r) PROVE Inv'
  OBVIOUS
<1>1. TypeOK'
  BY DEF Inv, GraceOver, TypeOK, AbortPc, Phase, runVars, engine
<1>2. phase' # "running" \/ phase' = phase
  BY DEF GraceOver
<1> QED
  BY <1>1, <1>2, ScreenStep DEF GraceOver, engine

LEMMA DieStays == Inv /\ Die => Inv'
<1> SUFFICES ASSUME Inv, Die PROVE Inv'
  OBVIOUS
<1>1. TypeOK'
  BY DEF Inv, Die, TypeOK, Exec, screen, runVars
<1>2. Placed' /\ SpinnerHasRun'
  BY DEF Inv, TypeOK, Placed, SpinnerHasRun, Die, Tracking, screen, runVars
<1>3. \A r \in Run : Unfinished(r)' => Unfinished(r)
  BY DEF Unfinished, Live, Die, screen, runVars
<1> QED
  BY <1>1, <1>2, <1>3, RunStep DEF Die, screen, runVars

\* A started run joins those that are unfinished.
LEMMA StartStays ==
  ASSUME NEW r \in Run, NEW N \in Requests, NEW k \in 0..MaxImages
  PROVE  Inv /\ Start(r, N, k) => Inv'
<1> SUFFICES ASSUME Inv, Start(r, N, k) PROVE Inv'
  OBVIOUS
<1> DEFINE others == {x \in Run : Unfinished(x)}
<1>1. /\ pc[r] = "unborn" /\ exec[r] = "none" /\ outcome[r] = "none"
      /\ pump[r] = "none" /\ latest' = r
      /\ UNCHANGED <<pump, seen, abort, up, subscribed, exec, reported>>
  BY DEF Inv, Placed, Start, engine
<1>2. N \in SUBSET Node /\ k \in Nat /\ k <= MaxImages
      /\ 0 \in 0..MaxImages
  BY ScreenAssumption
<1>3. /\ nodes' \in [Run -> SUBSET Node]
      /\ \A x \in Run \ {r} : nodes'[x] = nodes[x]
  BY <1>2 DEF Inv, TypeOK, Start
<1>4. /\ phase' \in Phase /\ runId' \in Run \cup {NoRun}
      /\ pc' \in [Run -> Pc] /\ outcome' \in [Run -> Outcome]
      /\ \A x \in Run \ {r} : pc'[x] = pc[x] /\ outcome'[x] = outcome[x]
      /\ pc'[r] \in {"image", "asking", "over"} /\ outcome'[r] # "done"
      /\ pc'[r] = "over" => phase' # "running"
  <2>1. CASE up
    BY <1>1, <2>1 DEF Inv, TypeOK, Start, Phase, Pc
  <2>2. CASE ~up
    <3>1. Settle(r, "error")
      BY <2>2 DEF Start
    <3> QED
      BY <3>1, SettleTypes DEF Inv
  <2> QED
    BY <2>1, <2>2
<1>5. images' \in [Run -> 0..MaxImages]
  <2>1. k # 0 => k - 1 \in 0..MaxImages
    BY <1>2, ScreenAssumption
  <2> QED
    BY <1>2, <2>1 DEF Inv, TypeOK, Start
<1>6. crowded' = IF others = {} THEN crowded ELSE crowded \cup others \cup {r}
  BY DEF Start
<1>7. TypeOK'
  BY <1>1, <1>3, <1>4, <1>5, <1>6 DEF Inv, TypeOK, Start
<1>8. Placed' /\ SpinnerHasRun'
  <2>1. \A x \in Run : Tracking(x)' = Tracking(x)
    BY <1>1 DEF Tracking
  <2> QED
    BY <1>1, <1>4, <2>1 DEF Inv, Placed, SpinnerHasRun, Tracking
<1>9. \A x \in Run \ {r} : Unfinished(x)' => x \in others
  BY <1>1, <1>3, <1>4 DEF Unfinished, Live
<1>10. Apart'
  BY <1>6, <1>9 DEF Inv, Apart
<1>11. SeenIsOwn'
  BY <1>1, <1>6 DEF Inv, SeenIsOwn
<1>12. DoneIsEarned'
  BY <1>1, <1>3, <1>4, <1>6 DEF Inv, DoneIsEarned
<1> QED
  BY <1>7, <1>8, <1>10, <1>11, <1>12 DEF Inv

\* A run that settles where it is, not as done.
LEMMA SettleErrorStays ==
  ASSUME Inv, NEW r \in Run, pc[r] \in {"image", "asking", "draining"},
         Settle(r, "error"),
         UNCHANGED <<aborting, latest, nodes, images, pump, seen, abort, engine,
                     crowded>>
  PROVE  Inv'
<1>1. /\ phase' \in Phase /\ phase' # "running" /\ runId' \in Run \cup {NoRun}
      /\ pc' \in [Run -> Pc] /\ outcome' \in [Run -> Outcome]
      /\ pc'[r] = "over" /\ outcome'[r] = "error"
      /\ \A x \in Run \ {r} : pc'[x] = pc[x] /\ outcome'[x] = outcome[x]
  BY SettleTypes DEF Inv
<1>2. TypeOK'
  BY <1>1 DEF Inv, TypeOK, engine
<1>3. Placed' /\ SpinnerHasRun'
  BY <1>1 DEF Inv, Placed, SpinnerHasRun, Tracking, engine
<1>4. \A x \in Run : Unfinished(x)' => Unfinished(x)
  BY <1>1 DEF Unfinished, Live, engine
<1> QED
  BY <1>1, <1>2, <1>3, <1>4, RunStep DEF engine

LEMMA ImageReadyStays ==
  ASSUME NEW r \in Run PROVE Inv /\ ImageReady(r) => Inv'
<1> SUFFICES ASSUME Inv, ImageReady(r) PROVE Inv'
  OBVIOUS
<1>1. CASE aborting
  <2>1. pc[r] = "image" /\ Settle(r, "error")
        /\ UNCHANGED <<aborting, latest, nodes, images, pump, seen, abort,
                       engine, crowded>>
    BY <1>1 DEF ImageReady
  <2> QED
    BY <2>1, SettleErrorStays
<1>2. CASE ~aborting
  <2> DEFINE await == IF images[r] = 0 THEN "asking" ELSE "image"
  <2>1. Call(r, await) /\ await \in {"image", "asking"} /\ pc[r] = "image"
    BY <1>2 DEF ImageReady
  <2> HIDE DEF await
  <2>2. /\ phase' \in Phase /\ runId' \in Run \cup {NoRun}
        /\ pc' \in [Run -> Pc] /\ outcome' \in [Run -> Outcome]
        /\ \A x \in Run \ {r} : pc'[x] = pc[x] /\ outcome'[x] = outcome[x]
        /\ \/ /\ pc'[r] = await /\ outcome'[r] = outcome[r] /\ phase' = phase
           \/ pc'[r] = "over" /\ outcome'[r] = "error" /\ phase' # "running"
    BY <2>1, CallTypes DEF Inv
  <2>3. images' \in [Run -> 0..MaxImages]
    <3>1. images[r] \in 0..MaxImages
      BY DEF Inv, TypeOK
    <3>2. (IF images[r] = 0 THEN 0 ELSE images[r] - 1) \in 0..MaxImages
      BY <3>1, ScreenAssumption
    <3> QED
      BY <1>2, <3>2 DEF Inv, TypeOK, ImageReady
  <2>4. TypeOK'
    BY <2>2, <2>3 DEF Inv, TypeOK, ImageReady, engine
  <2>5. Placed'
    BY <2>1, <2>2 DEF Inv, Placed, ImageReady, Tracking, engine
  <2>6. SpinnerHasRun'
    BY <2>1, <2>2 DEF Inv, SpinnerHasRun, ImageReady
  <2>7. \A x \in Run : Unfinished(x)' => Unfinished(x)
    BY <2>1, <2>2 DEF Unfinished, Live, ImageReady, engine
  <2> QED
    BY <2>2, <2>4, <2>5, <2>6, <2>7, RunStep DEF ImageReady, engine
<1> QED
  BY <1>1, <1>2

LEMMA RefusedStays ==
  ASSUME NEW r \in Run PROVE Inv /\ Refused(r) => Inv'
  BY SettleErrorStays DEF Refused

LEMMA DrainOverStays ==
  ASSUME NEW r \in Run PROVE Inv /\ DrainOver(r) => Inv'
  BY SettleErrorStays DEF DrainOver

LEMMA AcceptStays ==
  ASSUME NEW r \in Run PROVE Inv /\ Accept(r) => Inv'
<1> SUFFICES ASSUME Inv, Accept(r) PROVE Inv'
  OBVIOUS
<1>1. /\ pc[r] = "asking" /\ exec' \in [Run -> Exec]
      /\ \A x \in Run \ {r} : exec'[x] = exec[x]
  BY DEF Inv, TypeOK, Accept, Exec
<1>2. TypeOK'
  BY <1>1 DEF Inv, TypeOK, Accept, screen, runVars
<1>3. Placed' /\ SpinnerHasRun'
  BY <1>1 DEF Inv, Placed, SpinnerHasRun, Accept, Tracking, screen, runVars
<1>4. \A x \in Run : Unfinished(x)' => Unfinished(x)
  BY <1>1 DEF Unfinished, Live, Accept, runVars
<1> QED
  BY <1>2, <1>3, <1>4, RunStep DEF Accept, runVars

LEMMA StartedStays ==
  ASSUME NEW r \in Run PROVE Inv /\ Started(r) => Inv'
<1> SUFFICES ASSUME Inv, Started(r) PROVE Inv'
  OBVIOUS
<1>1. /\ pc[r] = "asking" /\ pc' \in [Run -> Pc] /\ pump' \in [Run -> Pump]
      /\ pc'[r] = "racing"
      /\ \A x \in Run \ {r} : pc'[x] = pc[x] /\ pump'[x] = pump[x]
  BY DEF Inv, TypeOK, Started, Pc, Pump
<1>2. TypeOK'
  BY <1>1 DEF Inv, TypeOK, Started, engine
<1>3. Placed' /\ SpinnerHasRun'
  BY <1>1 DEF Inv, Placed, SpinnerHasRun, Started, Tracking, engine
<1>4. \A x \in Run : Unfinished(x)' => Unfinished(x)
  BY <1>1 DEF Unfinished, Live, Started, engine
<1> QED
  BY <1>2, <1>3, <1>4, RunStep DEF Started, engine

LEMMA SubscribeStays ==
  ASSUME NEW r \in Run PROVE Inv /\ Subscribe(r) => Inv'
<1> SUFFICES ASSUME Inv, Subscribe(r) PROVE Inv'
  OBVIOUS
<1>1. /\ Tracking(r) /\ pump' \in [Run -> Pump]
      /\ \A x \in Run \ {r} : pump'[x] = pump[x]
  BY DEF Inv, TypeOK, Subscribe, Pump, Tracking
<1>2. TypeOK'
  BY <1>1 DEF Inv, TypeOK, Subscribe, screen
<1>3. Placed' /\ SpinnerHasRun'
  BY <1>1 DEF Inv, Placed, SpinnerHasRun, Subscribe, Tracking, screen
<1>4. \A x \in Run : Unfinished(x)' => Unfinished(x)
  BY DEF Unfinished, Live, Subscribe
<1> QED
  BY <1>2, <1>3, <1>4, RunStep DEF Subscribe

LEMMA SubscribeFailsStays ==
  ASSUME NEW r \in Run PROVE Inv /\ SubscribeFails(r) => Inv'
<1> SUFFICES ASSUME Inv, SubscribeFails(r) PROVE Inv'
  OBVIOUS
<1>1. /\ Tracking(r) /\ pump' \in [Run -> Pump]
      /\ pump'[r] = "ended" /\ \A x \in Run \ {r} : pump'[x] = pump[x]
  BY DEF Inv, TypeOK, SubscribeFails, Pump, Tracking
<1>2. /\ phase' \in Phase /\ runId' \in Run \cup {NoRun}
      /\ pc' \in [Run -> Pc] /\ outcome' = outcome
      /\ \A x \in Run \ {r} : pc'[x] = pc[x]
      /\ \/ pc' = pc /\ phase' = phase
         \/ pc'[r] = "over" /\ phase' # "running"
  <2>1. CASE pc[r] = "stopping"
    <3>1. outcome[r] \in {"done", "error"} /\ Settle(r, outcome[r])
      BY <2>1 DEF Inv, Placed, SubscribeFails
    <3>2. outcome' = outcome
      BY <3>1 DEF Inv, TypeOK, Settle
    <3> QED
      BY <3>1, <3>2, SettleTypes DEF Inv
  <2>2. CASE pc[r] # "stopping"
    BY <2>2 DEF Inv, TypeOK, SubscribeFails
  <2> QED
    BY <2>1, <2>2
<1>3. TypeOK'
  BY <1>1, <1>2 DEF Inv, TypeOK, SubscribeFails, engine
<1>4. Placed' /\ SpinnerHasRun'
  BY <1>1, <1>2 DEF Inv, Placed, SpinnerHasRun, SubscribeFails, Tracking, engine
<1>5. \A x \in Run : Unfinished(x)' => Unfinished(x)
  BY <1>1, <1>2 DEF Inv, Placed, Unfinished, Live, SubscribeFails, engine
<1> QED
  BY <1>2, <1>3, <1>4, <1>5, RunStep DEF SubscribeFails, engine

\* An event that only ends runs: those of ending are over, with the outcome
\* they have.
LEMMA EndingStep ==
  ASSUME Inv, NEW ending \in SUBSET Run,
         \A r \in ending : Tracking(r) /\ outcome'[r] \in {"done", "error"},
         phase' \in Phase, runId' \in Run \cup {NoRun},
         pc' \in [Run -> Pc], pump' \in [Run -> Pump],
         outcome' \in [Run -> Outcome],
         \A r \in Run \ ending : pc'[r] = pc[r] \/ pc'[r] = "draining",
         \A r \in Run \ ending : pc'[r] = "draining" /\ pc[r] # "draining" =>
                                   pc[r] = "racing",
         \A r \in ending : pc'[r] = "over",
         ending = {} => phase' = phase, ending # {} => phase' # "running",
         \A r \in Run \ ending : outcome'[r] = outcome[r],
         \A r \in Run : \/ pump'[r] = "ended" /\ Tracking(r)
                        \/ pump'[r] = pump[r],
         \A r \in Run : pc'[r] # pc[r] => pump'[r] = "ended",
         \A r \in Run : exec'[r] = "none" <=> exec[r] = "none",
         latest' = latest
  PROVE  Placed' /\ SpinnerHasRun'
<1>1. \A r \in ending : pc[r] \in {"racing", "stopping"}
  BY DEF Inv, Placed
<1>2. Placed'
  <2> SUFFICES ASSUME NEW r \in Run
      PROVE /\ pc'[r] = "unborn" => exec'[r] = "none" /\ outcome'[r] = "none"
            /\ pc'[r] \in {"image", "asking"} => pump'[r] = "none"
            /\ pc'[r] = "unborn" => pump'[r] = "none"
            /\ Tracking(r)' => pc'[r] \in {"racing", "stopping"}
            /\ pc'[r] = "stopping" => outcome'[r] \in {"done", "error"}
    BY DEF Placed
  <2>1. CASE r \in ending
    <3>1. pc[r] # pc'[r] /\ pc'[r] = "over"
      BY <1>1, <2>1
    <3> QED
      BY <3>1 DEF Tracking
  <2>2. CASE r \notin ending /\ pc'[r] = pc[r]
    <3>1. /\ outcome'[r] = outcome[r] /\ exec'[r] = "none" <=> exec[r] = "none"
          /\ \/ pump'[r] = "ended" /\ Tracking(r)
             \/ pump'[r] = pump[r]
      BY <2>2
    <3>2. /\ pc[r] = "unborn" => exec[r] = "none" /\ outcome[r] = "none"
          /\ pc[r] \in {"image", "asking"} => pump[r] = "none"
          /\ pc[r] = "unborn" => pump[r] = "none"
          /\ Tracking(r) => pc[r] \in {"racing", "stopping"}
          /\ pc[r] = "stopping" => outcome[r] \in {"done", "error"}
      BY DEF Inv, Placed
    <3> QED
      BY <2>2, <3>1, <3>2 DEF Tracking
  <2>3. CASE r \notin ending /\ pc'[r] # pc[r]
    <3>1. pc'[r] = "draining" /\ pump'[r] = "ended"
      BY <2>3
    <3> QED
      BY <3>1 DEF Tracking
  <2> QED
    BY <2>1, <2>2, <2>3
<1>3. SpinnerHasRun'
  BY <1>1 DEF Inv, SpinnerHasRun
<1> QED
  BY <1>2, <1>3
LEMMA NodeStartsStays ==
  ASSUME NEW x \in Run PROVE Inv /\ NodeStarts(x) => Inv'
<1> SUFFICES ASSUME Inv, NodeStarts(x) PROVE Inv'
  OBVIOUS
<1>1. /\ Woken \subseteq Run /\ \A r \in Woken : Tracking(r) /\ pc[r] = "stopping"
      /\ \A r \in Woken : outcome[r] \in {"done", "error"}
  BY HeardTypes, WokenDecided DEF Inv
<1>2. /\ outcome' = outcome /\ End(Woken)
      /\ pump' = [r \in Run |-> IF r \in Woken THEN "ended" ELSE pump[r]]
  BY DEF NodeStarts
<1>3. /\ phase' \in Phase /\ runId' \in Run \cup {NoRun}
      /\ pc' \in [Run -> Pc]
      /\ \A r \in Run : pc'[r] = IF r \in Woken THEN "over" ELSE pc[r]
      /\ Woken = {} => phase' = phase
      /\ Woken # {} => phase' # "running"
  <2>1. outcome' \in [Run -> Outcome]
    BY <1>2 DEF Inv, TypeOK
  <2> HIDE DEF Woken
  <2> QED
    BY <1>1, <1>2, <2>1, EndTypes DEF Inv
<1>4. pump' \in [Run -> Pump]
  BY <1>2 DEF Inv, TypeOK, Pump
<1>5. TypeOK'
  BY <1>2, <1>3, <1>4 DEF Inv, TypeOK, NodeStarts, engine
<1>6. Placed' /\ SpinnerHasRun'
  <2>1. latest' = latest /\ exec' = exec
    BY DEF NodeStarts, engine
  <2>2. outcome' \in [Run -> Outcome]
    BY <1>2 DEF Inv, TypeOK
  <2> HIDE DEF Woken
  <2> QED
    BY <1>1, <1>2, <1>3, <1>4, <2>1, <2>2, EndingStep
<1>7. \A r \in Run : Unfinished(r)' => Unfinished(r)
  BY <1>1, <1>3 DEF Unfinished, Live, NodeStarts, engine
<1> QED
  BY <1>2, <1>5, <1>6, <1>7, RunStep DEF NodeStarts, engine

LEMMA NodeFailsStays ==
  ASSUME NEW x \in Run PROVE Inv /\ NodeFails(x) => Inv'
<1> SUFFICES ASSUME Inv, NodeFails(x) PROVE Inv'
  OBVIOUS
<1>1. /\ Woken \subseteq Heard /\ Heard \subseteq Run
      /\ \A r \in Heard : Tracking(r)
      /\ \A r \in Woken : outcome[r] \in {"done", "error"}
      /\ \A r \in Heard \ Woken : pc[r] = "racing"
      /\ \A r \in Woken : pc[r] = "stopping"
  BY HeardTypes, WokenDecided DEF Inv, Placed
<1>2. /\ outcome' = outcome /\ exec[x] = "running"
      /\ exec' = [exec EXCEPT ![x] = "failing"]
      /\ pump' = [r \in Run |-> IF r \in Heard THEN "ended" ELSE pump[r]]
      /\ pc' = [r \in Run |-> IF r \in Woken THEN "over"
                              ELSE IF r \in Heard THEN "draining" ELSE pc[r]]
  BY DEF NodeFails, Live
<1>3. /\ phase' \in Phase /\ runId' \in Run \cup {NoRun}
      /\ Woken = {} => phase' = phase
      /\ Woken # {} => phase' # "running"
  <2>1. CASE Woken = {}
    BY <2>1 DEF Inv, TypeOK, NodeFails
  <2>2. CASE Woken # {}
    <3>1. PICK last \in Woken : phase' = outcome[last] /\ runId' = NoRun
      BY <2>2 DEF NodeFails
    <3>2. phase' \in {"done", "error"}
      BY <1>1, <3>1
    <3> QED
      BY <2>2, <3>1, <3>2 DEF Phase
  <2> QED
    BY <2>1, <2>2
<1>4. /\ pump' \in [Run -> Pump] /\ pc' \in [Run -> Pc] /\ exec' \in [Run -> Exec]
      /\ outcome' \in [Run -> Outcome]
  BY <1>2 DEF Inv, TypeOK, Pump, Pc, Exec
<1>5. TypeOK'
  BY <1>2, <1>3, <1>4 DEF Inv, TypeOK, NodeFails
<1>6. Placed' /\ SpinnerHasRun'
  <2>1. /\ latest' = latest
        /\ \A r \in Run : exec'[r] = "none" <=> exec[r] = "none"
    BY <1>2 DEF Inv, TypeOK, NodeFails
  <2> HIDE DEF Woken, Heard
  <2> QED
    BY <1>1, <1>2, <1>3, <1>4, <2>1, EndingStep
<1>7. \A r \in Run : Unfinished(r)' => Unfinished(r)
  <2> HIDE DEF Woken, Heard
  <2>1. \A r \in Run : Live(r)' => Live(r)
    BY <1>2 DEF Inv, TypeOK, Live, NodeFails
  <2>2. \A r \in Run : pc'[r] \notin {"unborn", "over"} =>
                        pc[r] \notin {"unborn", "over"}
    BY <1>1, <1>2
  <2> QED
    BY <2>1, <2>2 DEF Unfinished
<1> QED
  BY <1>2, <1>5, <1>6, <1>7, RunStep DEF NodeFails

LEMMA FailSilentlyStays ==
  ASSUME NEW x \in Run PROVE Inv /\ FailSilently(x) => Inv'
<1> SUFFICES ASSUME Inv, FailSilently(x) PROVE Inv'
  OBVIOUS
<1>1. /\ exec[x] = "running" /\ exec' = [exec EXCEPT ![x] = "failed"]
      /\ exec' \in [Run -> Exec]
  BY DEF Inv, TypeOK, FailSilently, Exec
<1>2. TypeOK'
  BY <1>1 DEF Inv, TypeOK, FailSilently, screen, runVars
<1>3. Placed' /\ SpinnerHasRun'
  BY <1>1 DEF Inv, TypeOK, Placed, SpinnerHasRun, FailSilently, Tracking, screen,
              runVars
<1>4. \A r \in Run : Unfinished(r)' => Unfinished(r)
  BY <1>1 DEF Inv, TypeOK, Unfinished, Live, FailSilently, runVars
<1> QED
  BY <1>2, <1>3, <1>4, RunStep DEF FailSilently, runVars

\* The one event that tells a run about success: what a run that was alone
\* hears is its own.
LEMMA NodeSucceedsStays ==
  ASSUME NEW x \in Run, NEW n \in Node PROVE Inv /\ NodeSucceeds(x, n) => Inv'
<1> SUFFICES ASSUME Inv, NodeSucceeds(x, n) PROVE Inv'
  OBVIOUS
<1> DEFINE done == Completed(n)
           ending == Woken \cup Completed(n)
<1>1. /\ Woken \subseteq Heard /\ Heard \subseteq Run /\ done \subseteq Heard \ Woken
      /\ \A r \in Heard : Tracking(r) /\ pc[r] \in {"racing", "stopping"}
      /\ \A r \in Woken : outcome[r] \in {"done", "error"}
      /\ \A r \in done : nodes[r] \subseteq seen[r] \cup {n}
  BY HeardTypes, WokenDecided DEF Inv, Placed, Completed
<1>2. /\ Live(x) /\ n \in nodes[x] /\ exec[x] = "running"
      /\ reported' = [reported EXCEPT ![x] = @ \cup {n}]
      /\ seen' = [r \in Run |-> IF r \in Heard /\ n \in nodes[r]
                                THEN seen[r] \cup {n} ELSE seen[r]]
      /\ pump' = [r \in Run |-> IF r \in ending THEN "ended" ELSE pump[r]]
      /\ outcome' = [r \in Run |-> IF r \in done THEN "done" ELSE outcome[r]]
      /\ End(ending)
      /\ UNCHANGED <<aborting, latest, nodes, images, abort, up, subscribed,
                     exec, crowded>>
  BY DEF NodeSucceeds, Live
<1> HIDE DEF done, ending
<1>3. /\ outcome' \in [Run -> Outcome] /\ pump' \in [Run -> Pump]
      /\ seen' \in [Run -> SUBSET Node] /\ reported' \in [Run -> SUBSET Node]
  BY <1>2 DEF Inv, TypeOK, Outcome, Pump
<1>4. /\ ending \subseteq Heard /\ ending = Woken \cup done
      /\ \A r \in ending : outcome'[r] \in {"done", "error"}
      /\ \A r \in Run \ ending : outcome'[r] = outcome[r]
  <2>1. ending = Woken \cup done
    BY DEF ending, done
  <2> HIDE DEF Woken, Heard
  <2> QED
    BY <1>1, <1>2, <2>1
<1>5. /\ phase' \in Phase /\ runId' \in Run \cup {NoRun}
      /\ pc' \in [Run -> Pc]
      /\ \A r \in Run : pc'[r] = IF r \in ending THEN "over" ELSE pc[r]
      /\ ending = {} => phase' = phase
      /\ ending # {} => phase' # "running"
  <2>1. ending \in SUBSET Run
    BY <1>1, <1>4
  <2> QED
    BY <1>2, <1>3, <1>4, <2>1, EndTypes DEF Inv
<1>6. TypeOK'
  BY <1>2, <1>3, <1>5 DEF Inv, TypeOK
<1>7. Placed' /\ SpinnerHasRun'
  <2>1. /\ ending \in SUBSET Run /\ \A r \in ending : Tracking(r)
    BY <1>1, <1>4
  <2>2. \A r \in Run : \/ pump'[r] = "ended" /\ Tracking(r)
                       \/ pump'[r] = pump[r]
    BY <1>2, <2>1
  <2>3. \A r \in Run : pc'[r] # pc[r] => pump'[r] = "ended"
    BY <1>2, <1>5
  <2>4. /\ \A r \in Run \ ending : pc'[r] = pc[r]
        /\ \A r \in ending : pc'[r] = "over"
    BY <1>5, <2>1
  <2>5. latest' = latest /\ exec' = exec
    BY <1>2
  <2> QED
    BY <1>3, <1>4, <1>5, <2>1, <2>2, <2>3, <2>4, <2>5, EndingStep
<1>8. \A r \in Run : Unfinished(r)' => Unfinished(r)
  <2>1. \A r \in Run : Live(r)' => Live(r)
    BY <1>2 DEF Inv, TypeOK, Live
  <2>2. \A r \in Run : pc'[r] \notin {"unborn", "over"} =>
                        pc[r] \notin {"unborn", "over"}
    BY <1>5
  <2> QED
    BY <2>1, <2>2 DEF Unfinished
<1>9. Apart'
  BY <1>2, <1>8 DEF Inv, Apart
<1>10. \A r \in Heard : r \notin crowded => r = x
  <2>1. \A r \in Heard : Unfinished(r)
    BY <1>1 DEF Unfinished
  <2>2. Unfinished(x)
    BY <1>2 DEF Unfinished
  <2> QED
    BY <1>1, <2>1, <2>2 DEF Inv, Apart
<1>11. SeenIsOwn'
  <2> SUFFICES ASSUME NEW r \in Run, r \notin crowded
      PROVE seen'[r] \subseteq reported'[r]
    BY <1>2 DEF SeenIsOwn
  <2>1. seen[r] \subseteq reported[r] /\ reported[r] \subseteq reported'[r]
    BY <1>2 DEF Inv, TypeOK, SeenIsOwn
  <2>2. n \in reported'[x]
    BY <1>2 DEF Inv, TypeOK
  <2>3. CASE r \in Heard
    BY <1>2, <1>10, <2>1, <2>2, <2>3
  <2>4. CASE r \notin Heard
    BY <1>2, <2>1, <2>4
  <2> QED
    BY <2>3, <2>4
<1>12. DoneIsEarned'
  <2> SUFFICES ASSUME NEW r \in Run, outcome'[r] = "done", r \notin crowded
      PROVE nodes[r] \subseteq reported'[r]
    BY <1>2 DEF DoneIsEarned
  <2>1. reported[r] \subseteq reported'[r] /\ n \in reported'[x]
    BY <1>2 DEF Inv, TypeOK
  <2>2. CASE r \in done
    <3>1. r = x /\ nodes[r] \subseteq seen[r] \cup {n} /\ seen[r] \subseteq reported[r]
      BY <1>1, <1>10, <2>2 DEF Inv, SeenIsOwn
    <3> QED
      BY <2>1, <3>1
  <2>3. CASE r \notin done
    <3>1. outcome[r] = "done"
      BY <1>2, <2>3
    <3> QED
      BY <2>1, <3>1 DEF Inv, DoneIsEarned
  <2> QED
    BY <2>2, <2>3
<1> QED
  BY <1>6, <1>7, <1>9, <1>11, <1>12 DEF Inv

\* The first of the race is the terminal output.
LEMMA TerminalTypes ==
  ASSUME Inv, NEW r \in Run, NEW how \in {"done", "error"}, Terminal(r, how)
  PROVE  /\ phase' \in Phase /\ runId' \in Run \cup {NoRun}
         /\ pc' \in [Run -> Pc] /\ outcome' \in [Run -> Outcome]
         /\ pc[r] = "racing" /\ outcome'[r] = how
         /\ \A x \in Run \ {r} : pc'[x] = pc[x] /\ outcome'[x] = outcome[x]
         /\ \/ /\ pump[r] = "ended" /\ pc'[r] = "over" /\ phase' # "running"
            \/ pc'[r] = "stopping" /\ phase' = phase
<1>1. CASE pump[r] = "ended"
  BY <1>1, SettleTypes DEF Inv, Terminal
<1>2. CASE pump[r] # "ended"
  BY <1>2 DEF Inv, TypeOK, Terminal, Pc, Outcome
<1> QED
  BY <1>1, <1>2

LEMMA TerminalSucceededStays ==
  ASSUME NEW r \in Run PROVE Inv /\ TerminalSucceeded(r) => Inv'
<1> SUFFICES ASSUME Inv, TerminalSucceeded(r) PROVE Inv'
  OBVIOUS
<1>1. /\ phase' \in Phase /\ runId' \in Run \cup {NoRun}
      /\ pc' \in [Run -> Pc] /\ outcome' \in [Run -> Outcome]
      /\ pc[r] = "racing" /\ outcome'[r] = "done"
      /\ \A x \in Run \ {r} : pc'[x] = pc[x] /\ outcome'[x] = outcome[x]
      /\ \/ /\ pump[r] = "ended" /\ pc'[r] = "over" /\ phase' # "running"
         \/ pc'[r] = "stopping" /\ phase' = phase
  BY TerminalTypes DEF TerminalSucceeded
<1>2. /\ reported[r] = nodes[r] /\ exec' \in [Run -> Exec] /\ exec'[r] = "succeeded"
      /\ \A x \in Run \ {r} : exec'[x] = exec[x]
  BY DEF Inv, TypeOK, TerminalSucceeded, Exec
<1>3. TypeOK'
  BY <1>1, <1>2 DEF Inv, TypeOK, TerminalSucceeded
<1>4. Placed' /\ SpinnerHasRun'
  BY <1>1, <1>2 DEF Inv, Placed, SpinnerHasRun, TerminalSucceeded, Tracking
<1>5. \A x \in Run : Unfinished(x)' => Unfinished(x)
  BY <1>1, <1>2 DEF Unfinished, Live, TerminalSucceeded
<1> QED
  BY <1>1, <1>2, <1>3, <1>4, <1>5, RunStep DEF TerminalSucceeded

LEMMA TerminalFailedStays ==
  ASSUME NEW r \in Run PROVE Inv /\ TerminalFailed(r) => Inv'
<1> SUFFICES ASSUME Inv, TerminalFailed(r) PROVE Inv'
  OBVIOUS
<1>1. /\ phase' \in Phase /\ runId' \in Run \cup {NoRun}
      /\ pc' \in [Run -> Pc] /\ outcome' \in [Run -> Outcome]
      /\ pc[r] = "racing" /\ outcome'[r] = "error"
      /\ \A x \in Run \ {r} : pc'[x] = pc[x] /\ outcome'[x] = outcome[x]
      /\ \/ /\ pump[r] = "ended" /\ pc'[r] = "over" /\ phase' # "running"
         \/ pc'[r] = "stopping" /\ phase' = phase
  BY TerminalTypes DEF TerminalFailed
<1>2. exec[r] # "none" /\ exec' = exec
  BY DEF TerminalFailed, engine
<1>3. TypeOK'
  BY <1>1 DEF Inv, TypeOK, TerminalFailed, engine
<1>4. Placed' /\ SpinnerHasRun'
  BY <1>1, <1>2 DEF Inv, Placed, SpinnerHasRun, TerminalFailed, Tracking, engine
<1>5. \A x \in Run : Unfinished(x)' => Unfinished(x)
  BY <1>1, <1>2 DEF Unfinished, Live, TerminalFailed, engine
<1> QED
  BY <1>1, <1>3, <1>4, <1>5, RunStep DEF TerminalFailed, engine

-----------------------------------------------------------------------------
LEMMA StutterStays == Inv /\ UNCHANGED vars => Inv'
<1> SUFFICES ASSUME Inv, UNCHANGED vars PROVE Inv'
  OBVIOUS
<1>1. TypeOK'
  BY DEF Inv, TypeOK, vars
<1> QED
  BY <1>1, ScreenStep DEF vars, runVars

LEMMA NextStays == Inv /\ [Next]_vars => Inv'
<1> SUFFICES ASSUME Inv, [Next]_vars PROVE Inv'
  OBVIOUS
<1>1. CASE User
  BY <1>1, StartStays, AcknowledgeStays, AbortStays DEF User
<1>2. ASSUME NEW r \in Run,
             CancelAnswered(r) \/ GraceOver(r) \/ ImageReady(r) \/ Refused(r)
      PROVE  Inv'
  BY <1>2, CancelAnsweredStays, GraceOverStays, ImageReadyStays, RefusedStays
<1>3. ASSUME NEW r \in Run,
             Accept(r) \/ Started(r) \/ Subscribe(r) \/ SubscribeFails(r)
      PROVE  Inv'
  BY <1>3, AcceptStays, StartedStays, SubscribeStays, SubscribeFailsStays
<1>4. ASSUME NEW r \in Run, Provision(r) \/ NodeStarts(r)
      PROVE  Inv'
  BY <1>4, NodeSucceedsStays, NodeFailsStays, FailSilentlyStays, NodeStartsStays
     DEF Provision
<1>5. ASSUME NEW r \in Run,
             DrainOver(r) \/ TerminalSucceeded(r) \/ TerminalFailed(r)
      PROVE  Inv'
  BY <1>5, DrainOverStays, TerminalSucceededStays, TerminalFailedStays
<1>6. CASE Die
  BY <1>6, DieStays
<1>7. CASE UNCHANGED vars
  BY <1>7, StutterStays
<1> QED
  BY <1>1, <1>2, <1>3, <1>4, <1>5, <1>6, <1>7 DEF Next

LEMMA Always == Spec => []Inv
  BY InitInv, NextStays, PTL DEF Spec

\* The store's values stay within their types.
THEOREM ScreenTypes == Spec => []TypeOK
<1>1. Inv => TypeOK
  BY DEF Inv
<1> QED
  BY <1>1, Always, PTL

\* However runs, their leftovers and aborts interleave, the spinner is not
\* shown for a run that has returned.
THEOREM SpinnersHaveRuns == Spec => []SpinnerHasRun
<1>1. Inv => SpinnerHasRun
  BY DEF Inv
<1> QED
  BY <1>1, Always, PTL

\* A run that was alone is done only if its execution was, on every node.
THEOREM DonesAreEarned == Spec => []DoneIsEarned
<1>1. Inv => DoneIsEarned
  BY DEF Inv
<1> QED
  BY <1>1, Always, PTL
=============================================================================
