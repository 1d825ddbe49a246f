----------------- MODULE BothSmallTimeThenHeurFullTime_proofs -----------------
(***************************************************************************)
(* What the composite mapper returns, and how its two threads share the    *)
(* seed, the future and the processors, for all sizes, limits and options. *)
(***************************************************************************)
EXTENDS BothSmallTimeThenHeurFullTime, TLAPS

(* The heuristic mapper: outside the warm-up, what is a success is routed, *)
(* and the results that are suggested before it map nothing.               *)
HMInv ==
  /\ HMTypeOK
  /\ FailedMapsNothing
  /\ ~cache_warmup /\ isMapped(mapping) => mapping.contents = "routed"
  /\ hm_pc \in {"candidates", "inner"} =>
       ~cache_warmup /\ result.contents = "empty" /\ result.status # "success"
  /\ hm_pc \in {"inner"} => solutions
  /\ hm_pc = "done" => ~cache_warmup

HMKept == UNCHANGED <<hm_options, timelimit, cache_warmup, nneigh, expired, mapping, result, solutions, ran_out>>

LEMMA OutcomesAreMappings ==
  ASSUME NEW outcome \in Outcomes, NEW contents \in Contents
  PROVE  /\ acceptTheFirstSolution(outcome, contents) \in Mappings
         /\ acceptTheFirstSolution(outcome, contents).status = "success" <=> outcome = "solution"
         /\ acceptTheFirstSolution(outcome, contents).contents =
              IF outcome = "solution" THEN contents ELSE "empty"
<1> QED
  BY DEF acceptTheFirstSolution, Mappings, Statuses, Outcomes, Contents

LEMMA BeginPassInv ==
  ASSUME HMInv, NEW w \in BOOLEAN, NEW limit \in Int, BeginPass(w, limit)
  PROVE  HMInv'
<1>1. HMTypeOK'
  <2>1. nneigh' \in Int /\ (limit <= 0) \in BOOLEAN
    BY ONLY BeginPass(w, limit), SizeAssumption DEF BeginPass, FirstSize
  <2>2. EmptyMapping \in Mappings
    BY ONLY DEF EmptyMapping, Mappings, Statuses, Contents
  <2> QED
    BY <2>1, <2>2, Zenon DEF HMInv, HMTypeOK, BeginPass, HMPhases
<1> QED
  BY <1>1 DEF HMInv, BeginPass, EmptyMapping, FailedMapsNothing, isMapped

LEMMA IdleInv == HMInv /\ hm_pc' = "idle" /\ HMKept => HMInv'
<1> QED
  BY DEF HMInv, HMKept, HMTypeOK, HMPhases, FailedMapsNothing, isMapped

LEMMA HMStepInv == HMInv /\ HMNext => HMInv'
<1> SUFFICES ASSUME HMInv, HMNext
             PROVE  HMInv'
  OBVIOUS
<1> USE DEF HMInv, HMTypeOK, HMPhases, Solving, FailedMapsNothing, isMapped
<1>1. CASE NextSize
  BY <1>1, SizeAssumption DEF NextSize
<1>2. CASE NoMoreSizes \/ NoCombined \/ PassEnds \/ SolverThrows
  BY <1>2 DEF NoMoreSizes, NoCombined, PassEnds, SolverThrows
<1>3. CASE OuterSolve
  <2>1. /\ WarmedUp \in Mappings /\ WarmedUp.contents = "empty"
        /\ EmptyMapping \in Mappings /\ EmptyMapping.contents = "empty" /\ EmptyMapping.status # "success"
    BY ONLY DEF WarmedUp, EmptyMapping, Mappings, Statuses, Contents
  <2> QED
    BY <1>3, <2>1 DEF OuterSolve
<1>4. CASE Candidate
  BY <1>4 DEF Candidate
<1>5. CASE TestPlacement
  BY <1>5 DEF TestPlacement, TimePasses, Outcomes
<1>6. CASE InnerOutOfTime
  BY <1>6 DEF InnerOutOfTime, EmptyMapping, Mappings, Statuses, Contents
<1>7. CASE InnerSolve
  <2>1. PICK outcome \in Outcomes :
          /\ TimePasses(outcome)
          /\ result' = acceptTheFirstSolution(outcome, "routed")
          /\ IF outcome = "solution" THEN hm_pc' = "combined" /\ mapping' = result'
             ELSE hm_pc' = "candidates" /\ UNCHANGED mapping
    BY <1>7 DEF InnerSolve
  <2>2. /\ result' \in Mappings
        /\ result'.status = "success" <=> outcome = "solution"
        /\ result'.contents = IF outcome = "solution" THEN "routed" ELSE "empty"
    BY <2>1, OutcomesAreMappings DEF Contents
  <2>3. UNCHANGED <<hm_options, timelimit, cache_warmup, nneigh, solutions>> /\ hm_pc = "inner"
    BY <1>7 DEF InnerSolve
  <2> QED
    BY <2>1, <2>2, <2>3 DEF TimePasses, Mappings
<1>8. CASE CandidatesEnd
  BY <1>8 DEF CandidatesEnd, TimePasses, Mappings, Statuses, Contents
<1>9. CASE Combined
  <2>1. PICK outcome \in Outcomes : mapping' = acceptTheFirstSolution(outcome, "routed")
    BY <1>9 DEF Combined
  <2>2. /\ mapping' \in Mappings
        /\ mapping'.status = "success" <=> outcome = "solution"
        /\ mapping'.contents = IF outcome = "solution" THEN "routed" ELSE "empty"
    BY <2>1, OutcomesAreMappings DEF Contents
  <2> QED
    BY <1>9, <2>2 DEF Combined
<1>10. CASE OutOfTime
  BY <1>10 DEF OutOfTime, EmptyMapping, Mappings, Statuses, Contents
<1>11. CASE WarmupEnds
  BY <1>11, BeginPassInv DEF WarmupEnds
<1> QED
  BY <1>1, <1>2, <1>3, <1>4, <1>5, <1>6, <1>7, <1>8, <1>9, <1>10, <1>11 DEF HMNext, SolveEnds

LEMMA HMUnchangedInv == HMInv /\ UNCHANGED hm_vars => HMInv'
<1> QED
  BY DEF HMInv, hm_vars, HMTypeOK, FailedMapsNothing, isMapped

-------------------------------------------------------------------------------
DrvTypes ==
  /\ args \in Args
  /\ pc \in Phases
  /\ round \in 1 .. 2
  /\ ilp_mapper_seed \in Nat
  /\ ilp \in [state : ILPStates, seed : Nat, limit : Nat,
              status : ILPStatuses \cup {"exception"}, balanced : BOOLEAN]
  /\ returned \in Returns
  /\ spent \subseteq Nat

(* The seed is advanced only when the future is read, so that a running    *)
(* thread, once it has read the seed, has the current one.                 *)
Seeds ==
  /\ \A s \in spent : s < ilp_mapper_seed
  /\ ilp.state \in {"solving", "ready"} => ilp.seed = ilp_mapper_seed

Threads ==
  /\ heurRuns => pc = "get_heur"
  /\ args.max_threads < 2 /\ pc \notin {"launch_ilp", "wait_ilp"} => ~ilpRuns
  /\ pc = "launch_ilp" => hm_pc = "idle"

Answers ==
  /\ returned # "nothing" => pc \in {"unwind", "returned"}
  /\ returned = "heur success" => hm_pc = "done"
  /\ returned = "ilp success" => ilp.state = "consumed"

Inv == HMInv /\ DrvTypes /\ Seeds /\ Threads /\ Answers /\ SuccessIsCorrect /\ FutureIsReadOnce

LEMMA InitInv == Init => Inv
<1> SUFFICES ASSUME Init
             PROVE  Inv
  OBVIOUS
<1>1. HMInv
  <2>1. HMInit
    BY DEF Init
  <2>2. nneigh \in Int
    BY ONLY <2>1, SizeAssumption DEF HMInit, FirstSize
  <2>3. EmptyMapping \in Mappings /\ EmptyMapping.contents = "empty" /\ EmptyMapping.status = "failure"
    BY ONLY DEF EmptyMapping, Mappings, Statuses, Contents
  <2>4. /\ hm_options \in Switches /\ hm_pc = "idle" /\ timelimit = 0 /\ cache_warmup = FALSE
        /\ expired = FALSE /\ mapping = EmptyMapping /\ result = EmptyMapping
        /\ solutions = FALSE /\ ran_out = FALSE
    BY ONLY <2>1 DEF HMInit
  <2>5. HMTypeOK
    <3>1. /\ cache_warmup \in BOOLEAN /\ expired \in BOOLEAN /\ solutions \in BOOLEAN /\ ran_out \in BOOLEAN
          /\ hm_options \in Switches /\ mapping \in Mappings /\ result \in Mappings
      BY ONLY <2>3, <2>4, Zenon
    <3>2. timelimit \in Int
      BY ONLY <2>4
    <3>3. hm_pc \in HMPhases
      BY ONLY <2>4, Zenon DEF HMPhases
    <3> QED
      BY ONLY <2>2, <3>1, <3>2, <3>3, Zenon DEF HMTypeOK
  <2> QED
    BY ONLY <2>3, <2>4, <2>5 DEF HMInv, FailedMapsNothing, isMapped
<1> QED
  BY <1>1 DEF Init, HMInit, Inv, DrvTypes, Seeds, Threads, Answers, SuccessIsCorrect, FutureIsReadOnce,
     NoILP, Phases, ILPStates, ILPStatuses, Returns, heurRuns, ilpRuns

LEMMA TimesAreNaturals ==
  ASSUME DrvTypes
  PROVE  timeouts.ilp \in Nat /\ timeouts.heur - timeouts.heur_wait \in Int
<1>1. args.timelimit \in Nat /\ args.initial_heur_wait \in Nat
  BY TimesAssumption DEF DrvTypes, Args
<1> QED
  BY <1>1, TimesAssumption DEF timeouts, Lesser

LEMMA DriverInv == Inv /\ Driver => Inv'
<1> SUFFICES ASSUME Inv, Driver
             PROVE  Inv'
  OBVIOUS
<1> USE DEF Inv, DrvTypes, Seeds, Threads, Answers, SuccessIsCorrect, FutureIsReadOnce, Phases,
        heurRuns, ilpRuns, Returns
<1>1. CASE LaunchILP
  BY <1>1, HMUnchangedInv, TimesAreNaturals DEF LaunchILP, hm_vars, NoILP, ILPStates
<1>2. CASE WaitILP \/ ILPIsQuick \/ WaitIsOver
  BY <1>2, HMUnchangedInv DEF WaitILP, ILPIsQuick, WaitIsOver, hm_vars
<1>3. CASE Examine
  <2> USE <1>3 DEF Examine
  <2>1. HMInv' /\ hm_pc' = hm_pc /\ mapping' = mapping
    BY HMUnchangedInv DEF hm_vars
  <2>8. /\ ilp'.state = "consumed" /\ ilp'.status = ilp.status /\ ilp'.balanced = ilp.balanced
        /\ ilp' \in [state : ILPStates, seed : Nat, limit : Nat,
                    status : ILPStatuses \cup {"exception"}, balanced : BOOLEAN]
    BY DEF ILPStates
  <2>9. \/ spent' = spent /\ ilp_mapper_seed' = ilp_mapper_seed
        \/ spent' = spent \cup {ilp_mapper_seed} /\ ilp_mapper_seed' = ilp_mapper_seed + 1
    OBVIOUS
  <2>10. spent' \subseteq Nat /\ ilp_mapper_seed' \in Nat /\ (\A s \in spent' : s < ilp_mapper_seed')
    <3>1. spent \subseteq Nat /\ ilp_mapper_seed \in Nat /\ (\A s \in spent : s < ilp_mapper_seed)
      OBVIOUS
    <3>3. CASE spent' = spent /\ ilp_mapper_seed' = ilp_mapper_seed
      BY ONLY <3>1, <3>3
    <3>4. CASE spent' = spent \cup {ilp_mapper_seed} /\ ilp_mapper_seed' = ilp_mapper_seed + 1
      <4>1. spent' \subseteq Nat /\ ilp_mapper_seed' \in Nat
        BY ONLY <3>1, <3>4
      <4>2. ASSUME NEW s \in spent'
            PROVE  s < ilp_mapper_seed'
        <5>1. s \in Nat /\ (s < ilp_mapper_seed \/ s = ilp_mapper_seed)
          BY ONLY <3>1, <3>4, <4>2
        <5> QED
          BY ONLY <3>1, <3>4, <5>1
      <4> QED
        BY ONLY <4>1, <4>2
    <3> QED
      BY ONLY <2>9, <3>3, <3>4
  <2>11. pc' \in {"unwind", "launch_heur", "decide"} /\ args' = args /\ round' = round
    OBVIOUS
  <2>12. returned' \in {"exception", "nothing", "ilp success", "ilp failure"}
    OBVIOUS
  <2>2. DrvTypes'
    BY <2>8, <2>10, <2>11, <2>12
  <2>3. Seeds'
    BY <2>8, <2>10
  <2>4. heurRuns = FALSE
    OBVIOUS
  <2>5. Threads'
    BY ONLY <2>1, <2>4, <2>8, <2>11 DEF Threads, heurRuns, ilpRuns
  <2>13. returned' # "nothing" => pc' = "unwind"
    OBVIOUS
  <2>6. Answers'
    BY ONLY <2>1, <2>8, <2>12, <2>13 DEF Answers
  <2>7. SuccessIsCorrect'
    BY <2>1 DEF analyzeILPMapping, mapOpGraph
  <2> QED
    BY ONLY <2>1, <2>2, <2>3, <2>5, <2>6, <2>7, <2>11 DEF Inv, FutureIsReadOnce
<1>4. CASE LaunchHeur
  <2>1. HMInv'
    <3>1. hm_options.do_cache_warmup \in BOOLEAN
      BY DEF HMInv, HMTypeOK, Switches
    <3>2. timeouts.heur - timeouts.heur_wait \in Int
      BY TimesAreNaturals
    <3> QED
      BY ONLY <1>4, <3>1, <3>2, HMInv, BeginPassInv DEF LaunchHeur
  <2> QED
    BY <1>4, <2>1 DEF LaunchHeur, BeginPass
<1>5. CASE HeurThrew
  BY <1>5, HMUnchangedInv DEF HeurThrew, hm_vars
<1>6. CASE HeurMapped
  BY <1>6, HMUnchangedInv DEF HeurMapped, hm_vars, HMInv
<1>7. CASE HeurDidNotMap
  BY <1>7, HMUnchangedInv DEF HeurDidNotMap, hm_vars, valid
<1>8. CASE GiveUp
  BY <1>8, HMUnchangedInv DEF GiveUp, hm_vars
<1>9. CASE NextRound
  <2>1. HMInv'
    <3>1. CASE round = 1
      BY <1>9, <3>1, IdleInv DEF NextRound, HMKept
    <3>2. CASE round # 1
      BY <1>9, <3>2, HMUnchangedInv DEF NextRound, hm_vars
    <3> QED
      BY <3>1, <3>2
  <2>2. returned' \in {"nothing", "ended"}
    BY <1>9 DEF NextRound
  <2>7. round' \in 1 .. 2 /\ pc' \in Phases
    <3>1. round' = 2 /\ pc' \in {"launch_ilp", "unwind"}
      BY <1>9 DEF NextRound
    <3>2. round' \in 1 .. 2
      BY ONLY <3>1
    <3> QED
      BY ONLY <3>1, <3>2 DEF Phases
  <2>8. DrvTypes'
    BY <1>9, <2>2, <2>7 DEF NextRound
  <2>3. Threads'
    <3>1. CASE round = 1
      BY <1>9, <3>1 DEF NextRound
    <3>2. CASE round # 1
      BY <1>9, <3>2 DEF NextRound
    <3> QED
      BY <3>1, <3>2
  <2>4. Seeds'
    BY <1>9 DEF NextRound
  <2>5. pc' \in {"launch_ilp", "unwind"} /\ (returned' # "nothing" => pc' = "unwind")
    BY <1>9 DEF NextRound
  <2>6. Answers' /\ SuccessIsCorrect' /\ FutureIsReadOnce'
    BY <2>2, <2>5
  <2> QED
    BY <2>1, <2>3, <2>4, <2>6, <2>8
<1>10. CASE Unwind
  BY <1>10, HMUnchangedInv DEF Unwind, hm_vars
<1> QED
  BY <1>1, <1>2, <1>3, <1>4, <1>5, <1>6, <1>7, <1>8, <1>9, <1>10 DEF Driver

LEMMA ThreadInv == Inv /\ Thread => Inv'
<1> SUFFICES ASSUME Inv, Thread
             PROVE  Inv'
  OBVIOUS
<1> USE DEF Inv, DrvTypes, Seeds, Threads, Answers, SuccessIsCorrect, FutureIsReadOnce, heurRuns, ilpRuns
<1>1. CASE ILPReadsSeed
  BY <1>1, HMUnchangedInv DEF ILPReadsSeed, hm_vars, ILPStates
<1>2. CASE ILPEnds
  BY <1>2, HMUnchangedInv DEF ILPEnds, hm_vars, ILPStates
<1> QED
  BY <1>1, <1>2 DEF Thread

LEMMA HeuristicInv == Inv /\ Heuristic => Inv'
<1> SUFFICES ASSUME Inv, HMNext, UNCHANGED drv_vars
             PROVE  Inv'
  BY DEF Heuristic
<1>1. HMInv'
  BY HMStepInv DEF Inv
<1>2. heurRuns \/ hm_pc = "leave"
  BY DEF HMNext, SolveEnds, NextSize, NoMoreSizes, OuterSolve, Candidate, NoCombined, TestPlacement,
     InnerOutOfTime, InnerSolve, CandidatesEnd, Combined, OutOfTime, WarmupEnds, PassEnds,
     SolverThrows, Solving, heurRuns
<1>3. pc = "get_heur"
  BY <1>2 DEF Inv, Threads, heurRuns
<1> QED
  BY <1>1, <1>3 DEF Inv, DrvTypes, Seeds, Threads, Answers, SuccessIsCorrect, FutureIsReadOnce,
     heurRuns, ilpRuns, drv_vars

LEMMA NextInv == Inv /\ [Next]_vars => Inv'
<1>1. Inv /\ UNCHANGED vars => Inv'
  BY HMUnchangedInv DEF vars, hm_vars, drv_vars, Inv, DrvTypes, Seeds, Threads, Answers, SuccessIsCorrect,
     FutureIsReadOnce, heurRuns, ilpRuns
<1> QED
  BY <1>1, DriverInv, ThreadInv, HeuristicInv DEF Next, Stopped

LEMMA Invariance == Spec => []Inv
<1> QED
  BY InitInv, NextInv, PTL DEF Spec

-------------------------------------------------------------------------------
(* A pass is only left with a mapping, after the largest size or cut short *)
(* by time.                                                                *)
AllSizesTried ==
  hm_pc \in {"leave", "done"} /\ ~isMapped(mapping) /\ ~ran_out => nneigh >= nneigh_stop

LEMMA AllSizesInit == Init => AllSizesTried
<1> QED
  BY DEF Init, HMInit, AllSizesTried

LEMMA AllSizesNext == AllSizesTried /\ [Next]_vars => AllSizesTried'
<1> SUFFICES ASSUME AllSizesTried, [Next]_vars
             PROVE  AllSizesTried'
  OBVIOUS
<1> USE DEF AllSizesTried
<1>1. CASE UNCHANGED hm_vars
  BY <1>1 DEF hm_vars, isMapped
<1>2. CASE HMNext
  BY <1>2 DEF HMNext, SolveEnds, NextSize, NoMoreSizes, OuterSolve, Candidate, NoCombined,
     TestPlacement, InnerOutOfTime, InnerSolve, CandidatesEnd, Combined, OutOfTime, WarmupEnds,
     BeginPass, PassEnds, SolverThrows, isMapped
<1>3. CASE LaunchHeur \/ NextRound
  BY <1>3 DEF LaunchHeur, BeginPass, NextRound, isMapped
<1>4. UNCHANGED hm_vars \/ HMNext \/ LaunchHeur \/ NextRound
  BY DEF Next, vars, Driver, Thread, Heuristic, Stopped, LaunchILP, WaitILP, ILPIsQuick, WaitIsOver,
     Examine, HeurThrew, HeurMapped, HeurDidNotMap, GiveUp, Unwind, ILPReadsSeed, ILPEnds
<1> QED
  BY <1>1, <1>2, <1>3, <1>4

-------------------------------------------------------------------------------
(* Whatever the solvers do, a mapping returned as a success is routed (the *)
(* heuristic mapper's) or passed the latency check (the ILP mapper's).     *)
THEOREM SuccessesCorrect == Spec => []SuccessIsCorrect
<1>1. Inv => SuccessIsCorrect
  BY DEF Inv
<1> QED
  BY <1>1, Invariance, PTL

(* Neither the success of a warm-up nor that of a test placement leaves    *)
(* the heuristic mapper.                                                   *)
THEOREM SuccessesRouted == Spec => []SuccessIsRouted
<1>1. Inv => SuccessIsRouted
  BY DEF Inv, HMInv, SuccessIsRouted
<1> QED
  BY <1>1, Invariance, PTL

(* When the heuristic mapper fails and time did not cut it short, it has   *)
(* tried every neighbourhood size.                                         *)
THEOREM FailuresAreThorough == Spec => []FailureTriedAllSizes
<1>1. AllSizesTried => FailureTriedAllSizes
  BY DEF AllSizesTried, FailureTriedAllSizes
<1> QED
  BY <1>1, AllSizesInit, AllSizesNext, PTL DEF Spec

(* A failed attempt leaves no op placed for the next one.                  *)
THEOREM FailuresMapNothing == Spec => [](TypeOK /\ FailedMapsNothing)
<1>1. Inv => TypeOK /\ FailedMapsNothing
  BY DEF Inv, HMInv, DrvTypes, TypeOK
<1> QED
  BY <1>1, Invariance, PTL

(* A thread never solves with a seed that is known to lead to an unusable  *)
(* mapping, however late it reads the seed.                                *)
THEOREM SeedsAdvance == Spec => []SpentSeedsAreLeft
<1>1. Inv => SpentSeedsAreLeft
  BY DEF Inv, DrvTypes, Seeds, SpentSeedsAreLeft
<1> QED
  BY <1>1, Invariance, PTL

(* The future of the ILP mapper is read at most once per round.            *)
THEOREM FutureRead == Spec => []FutureIsReadOnce
<1>1. Inv => FutureIsReadOnce
  BY DEF Inv
<1> QED
  BY <1>1, Invariance, PTL

(* With a single thread allowed the two mappers never run together.        *)
THEOREM OneThread == Spec => []ThreadsWithinLimit
<1>1. Inv => ThreadsWithinLimit
  BY DEF Inv, Threads, ThreadsWithinLimit
<1> QED
  BY <1>1, Invariance, PTL
===============================================================================
