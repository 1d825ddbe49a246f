-------------------- MODULE BothSmallTimeThenHeurFullTime --------------------
(***************************************************************************)
(* The composite mapper of CompositeMappers.cpp: the ILPMapper and the     *)
(* ILPHeuristicMapper run in threads of their own (std::async), first for  *)
(* a short time, then the heuristic one for the full time.  The thread of  *)
(* the heuristic mapper is the module ILPHeuristicMapper; that of the ILP  *)
(* mapper, whose solver is external, reads its seed, solves, and ends with *)
(* any status its time limit allows.                                       *)
(***************************************************************************)
EXTENDS ILPHeuristicMapper, FiniteSets

CONSTANTS
  TimeLimits,       (* time limits of the whole mapper, 0 for none            *)
  ThreadCounts,     (* max_threads                                            *)
  initial_timeout,
  HeurWaits,        (* initial_heur_wait                                      *)
  secondary_limit

ASSUME TimesAssumption ==
  /\ TimeLimits \subseteq Nat /\ ThreadCounts \subseteq Nat /\ HeurWaits \subseteq Nat
  /\ initial_timeout \in Nat /\ secondary_limit \in Nat

VARIABLES
  args,             (* what was chosen of the constants; it stays the same    *)
  pc,               (* where mapOpGraph_internal is                           *)
  round,
  ilp_mapper_seed,
  ilp,              (* the thread of the ILP mapper, behind ilp_future        *)
  returned,         (* what is returned                                       *)
  spent             (* history: seeds that led to an unusable mapping         *)

drv_vars == <<args, pc, round, ilp_mapper_seed, ilp, returned, spent>>
vars == <<hm_vars, drv_vars>>

Args == [timelimit : TimeLimits, max_threads : ThreadCounts, initial_heur_wait : HeurWaits]
Phases ==
  {"launch_ilp", "wait_ilp", "wait_for", "launch_heur", "get_heur", "examine", "decide",
   "unwind", "returned"}
Returns ==
  {"nothing", "heur success", "heur failure", "ilp success", "ilp failure", "ended", "exception"}

Lesser(a, b) == IF a < b THEN a ELSE b
timeouts ==
  IF round = 1
  THEN [heur |-> Lesser(initial_timeout, args.timelimit),
        ilp |-> Lesser(initial_timeout, args.timelimit),
        heur_wait |-> args.initial_heur_wait]
  ELSE [heur |-> args.timelimit,
        ilp |-> Lesser(secondary_limit, args.timelimit),
        heur_wait |-> 0]

-----------------------------------------------------------------------------
(* The thread of the ILP mapper.  Its mapping is balanced or not: the ILP  *)
(* does not model latencies.                                               *)
ILPStatuses ==
  {"OPTIMAL_FOUND", "SUBOPTIMAL_FOUND", "TIMEOUT", "UNLISTED_STATUS", "INTERRUPTED", "INFEASIBLE"}
mapOpGraph(s) ==
  IF s \in {"OPTIMAL_FOUND", "SUBOPTIMAL_FOUND"} THEN "success"
  ELSE IF s = "TIMEOUT" THEN "timeout" ELSE "failure"

ILPStates == {"none", "started", "solving", "ready", "consumed"}
NoILP == [state |-> "none", seed |-> 0, limit |-> 0, status |-> "exception", balanced |-> FALSE]

(* The options are computed in the thread: it reads ilp_mapper_seed by     *)
(* reference, some time after the launch.                                  *)
ILPReadsSeed ==
  /\ ilp.state = "started"
  /\ ilp' = [ilp EXCEPT !.state = "solving", !.seed = ilp_mapper_seed]
  /\ UNCHANGED <<hm_vars, args, pc, round, ilp_mapper_seed, returned, spent>>

ILPEnds ==
  /\ ilp.state = "solving"
  /\ \E status \in ILPStatuses \cup {"exception"}, balanced \in BOOLEAN :
       /\ status = "TIMEOUT" => ilp.limit # 0
       /\ balanced => mapOpGraph(status) = "success"
       /\ ilp' = [ilp EXCEPT !.state = "ready", !.status = status, !.balanced = balanced]
  /\ UNCHANGED <<hm_vars, args, pc, round, ilp_mapper_seed, returned, spent>>

(* ilp_future.valid() *)
valid == ilp.state # "consumed"

AnalyzeUnchecked(s, balanced) ==
  IF mapOpGraph(s) = "timeout" THEN "ignore_mapping" ELSE "return_mapping"
analyzeILPMapping(s, balanced) ==
  IF mapOpGraph(s) = "success"
  THEN IF balanced THEN "return_mapping" ELSE "advance_seed"
  ELSE IF mapOpGraph(s) = "failure" THEN "return_mapping" ELSE "ignore_mapping"

-----------------------------------------------------------------------------
Init ==
  /\ HMInit
  /\ args \in Args
  /\ pc = "launch_ilp"
  /\ round = 1
  /\ ilp_mapper_seed = 0
  /\ ilp = NoILP
  /\ returned = "nothing"
  /\ spent = {}

LaunchILP ==
  /\ pc = "launch_ilp"
  /\ ilp' = [NoILP EXCEPT !.state = "started", !.limit = timeouts.ilp]
  /\ pc' = IF args.max_threads < 2 THEN "wait_ilp" ELSE "wait_for"
  /\ UNCHANGED <<hm_vars, args, round, ilp_mapper_seed, returned, spent>>

WaitILP ==
  /\ pc = "wait_ilp" /\ ilp.state = "ready"
  /\ pc' = "wait_for"
  /\ UNCHANGED <<hm_vars, args, round, ilp_mapper_seed, ilp, returned, spent>>

(* wait_for: the future is ready in time, or the wait is over.             *)
ILPIsQuick ==
  /\ pc = "wait_for" /\ timeouts.heur_wait > 0 /\ ilp.state = "ready"
  /\ pc' = "examine"
  /\ UNCHANGED <<hm_vars, args, round, ilp_mapper_seed, ilp, returned, spent>>
WaitIsOver ==
  /\ pc = "wait_for" /\ (timeouts.heur_wait > 0 => ilp.state # "ready")
  /\ pc' = "launch_heur"
  /\ UNCHANGED <<hm_vars, args, round, ilp_mapper_seed, ilp, returned, spent>>

(* get() and analyzeILPMapping, before the heuristic mapper is launched or *)
(* after it has ended.                                                     *)
ExamineKeepsSeed ==
  /\ pc = "examine" /\ ilp.state = "ready"
  /\ LET action == analyzeILPMapping(ilp.status, ilp.balanced)
     IN  /\ pc' = IF ilp.status = "exception" \/ action = "return_mapping" THEN "unwind"
                  ELSE IF hm_pc = "idle" THEN "launch_heur" ELSE "decide"
         /\ returned' = IF ilp.status = "exception" THEN "exception"
                        ELSE IF action # "return_mapping" THEN returned
                        ELSE IF mapOpGraph(ilp.status) = "success" THEN "ilp success" ELSE "ilp failure"
         /\ spent' = IF action = "advance_seed" THEN spent \cup {ilp.seed} ELSE spent
         /\ ilp_mapper_seed' = IF action = "advance_seed" /\ hm_pc = "idle" THEN ilp_mapper_seed + 1
                               ELSE ilp_mapper_seed
  /\ ilp' = [ilp EXCEPT !.state = "consumed"]
  /\ UNCHANGED <<hm_vars, args, round>>
Examine ==
  /\ pc = "examine" /\ ilp.state = "ready"
  /\ LET action == analyzeILPMapping(ilp.status, ilp.balanced)
     IN  /\ pc' = IF ilp.status = "exception" \/ action = "return_mapping" THEN "unwind"
                  ELSE IF hm_pc = "idle" THEN "launch_heur" ELSE "decide"
         /\ returned' = IF ilp.status = "exception" THEN "exception"
                        ELSE IF action # "return_mapping" THEN returned
                        ELSE IF mapOpGraph(ilp.status) = "success" THEN "ilp success" ELSE "ilp failure"
         /\ spent' = IF action = "advance_seed" THEN spent \cup {ilp.seed} ELSE spent
         /\ ilp_mapper_seed' = IF action = "advance_seed" THEN ilp_mapper_seed + 1 ELSE ilp_mapper_seed
  /\ ilp' = [ilp EXCEPT !.state = "consumed"]
  /\ UNCHANGED <<hm_vars, args, round>>

LaunchHeur ==
  /\ pc = "launch_heur"
  /\ BeginPass(hm_options.do_cache_warmup, timeouts.heur - timeouts.heur_wait)
  /\ pc' = "get_heur"
  /\ UNCHANGED <<args, round, ilp_mapper_seed, ilp, returned, spent>>

(* heur_future.get() *)
HeurThrew ==
  /\ pc = "get_heur" /\ hm_pc = "thrown"
  /\ pc' = "unwind"
  /\ returned' = "exception"
  /\ UNCHANGED <<hm_vars, args, round, ilp_mapper_seed, ilp, spent>>

HeurMapped ==
  /\ pc = "get_heur" /\ hm_pc = "done" /\ isMapped(mapping)
  /\ pc' = "unwind"
  /\ returned' = "heur success"
  /\ UNCHANGED <<hm_vars, args, round, ilp_mapper_seed, ilp, spent>>

HeurDidNotMap ==
  /\ pc = "get_heur" /\ hm_pc = "done" /\ ~isMapped(mapping)
  /\ pc' = IF valid THEN "examine" ELSE "decide"
  /\ UNCHANGED <<hm_vars, args, round, ilp_mapper_seed, ilp, returned, spent>>

(* "Everything returned failure without timing out, giving up" *)
GiveUp ==
  /\ pc = "decide" /\ mapping.status # "timeout"
  /\ pc' = "unwind"
  /\ returned' = "heur failure"
  /\ UNCHANGED <<hm_vars, args, round, ilp_mapper_seed, ilp, spent>>

(* The heuristic mapper timed out: another round, or the schedule ended.   *)
NextRound ==
  /\ pc = "decide" /\ mapping.status = "timeout"
  /\ round' = 2
  /\ pc' = IF round = 1 THEN "launch_ilp" ELSE "unwind"
  /\ returned' = IF round = 1 THEN returned ELSE "ended"
  /\ hm_pc' = IF round = 1 THEN "idle" ELSE hm_pc
  /\ UNCHANGED <<hm_options, timelimit, cache_warmup, nneigh, expired, mapping, result, solutions, ran_out>>
  /\ UNCHANGED <<args, ilp_mapper_seed, ilp, spent>>

(* The destructor of a future of std::async waits for its thread.          *)
Unwind ==
  /\ pc = "unwind" /\ ilp.state \in {"ready", "consumed"}
  /\ pc' = "returned"
  /\ UNCHANGED <<hm_vars, args, round, ilp_mapper_seed, ilp, returned, spent>>

Stopped == pc = "returned" /\ UNCHANGED vars

Heuristic == HMNext /\ UNCHANGED drv_vars
Thread == ILPReadsSeed \/ ILPEnds
Driver ==
  \/ LaunchILP \/ WaitILP \/ ILPIsQuick \/ WaitIsOver \/ Examine \/ LaunchHeur
  \/ HeurThrew \/ HeurMapped \/ HeurDidNotMap \/ GiveUp \/ NextRound \/ Unwind

Next == Driver \/ Thread \/ Heuristic \/ Stopped
Spec == Init /\ [][Next]_vars

(* Threads are scheduled, and every solve ends: the solver stops at its    *)
(* time limit.  An ILP solve without a limit need not end.                 *)
Fairness ==
  /\ WF_vars(Driver) /\ WF_vars(ILPReadsSeed) /\ WF_vars(Heuristic)
  /\ WF_vars(ilp.limit # 0 /\ ILPEnds)
  /\ SF_vars(CandidatesEnd /\ UNCHANGED drv_vars)
FairSpec == Spec /\ Fairness

-----------------------------------------------------------------------------
TypeOK ==
  /\ HMTypeOK
  /\ args \in Args
  /\ pc \in Phases
  /\ round \in 1 .. 2
  /\ ilp_mapper_seed \in Nat
  /\ ilp \in [state : ILPStates, seed : Nat, limit : Nat,
              status : ILPStatuses \cup {"exception"}, balanced : BOOLEAN]
  /\ returned \in Returns
  /\ spent \subseteq Nat

(* "Any successful & correct mapping is returned", and no other: a success *)
(* of the heuristic mapper is routed, one of the ILP mapper is balanced.   *)
SuccessIsCorrect ==
  /\ returned = "heur success" => mapping.contents = "routed"
  /\ returned = "ilp success" => ilp.status \in {"OPTIMAL_FOUND", "SUBOPTIMAL_FOUND"} /\ ilp.balanced

(* A seed that led to an unusable mapping is not tried again, although the *)
(* thread reads the seed at a time of its own.                             *)
SpentSeedsAreLeft == ilp.state = "solving" => ilp.seed \notin spent

(* get() is called once per future: a second call is undefined behaviour.  *)
FutureIsReadOnce == pc = "examine" => ilp.state # "consumed"

(* max_threads, "Maximum number of simultaneous threads that a mapper      *)
(* should try to use": with one, the mappers never run at the same time.   *)
ilpRuns == ilp.state \in {"started", "solving"}
heurRuns == hm_pc \notin {"idle", "done", "thrown"}
ThreadsWithinLimit == args.max_threads < 2 => ~(ilpRuns /\ heurRuns)

(* With a time limit, the mapper ends.                                     *)
MappingEnds == args.timelimit # 0 => <>(pc = "returned")
===============================================================================
