-------------------------- MODULE ILPHeuristicMapper --------------------------
(***************************************************************************)
(* The control flow of ILPHeuristicMapper::real_mapOpGraph: a warm-up pass *)
(* over the caches, then a loop over growing neighbourhood sizes, each with *)
(* a test placement, an outer solve whose candidate placements are routed  *)
(* by inner solves, and a final combined attempt.  The ILP solver is       *)
(* external: a solve ends with a solution, without one, or at its time     *)
(* limit.  A mapping is its status and what it maps: nothing, ops only, or *)
(* ops and routes.  Time is whether the limit has passed.                  *)
(***************************************************************************)
EXTENDS Integers

CONSTANTS nneigh_start, nneigh_stop, nneigh_step

ASSUME SizeAssumption ==
  nneigh_start \in Int /\ nneigh_stop \in Int /\ nneigh_step \in Nat \ {0}

VARIABLES
  hm_options,   (* the switches of the mapper; they stay the same             *)
  hm_pc,
  timelimit,    (* in seconds                                                 *)
  cache_warmup, (* the first of the two passes is running                     *)
  nneigh,
  expired,      (* time_remaining() = 0                                       *)
  mapping,
  result,       (* of the outer solve: the last mapping that was suggested    *)
  solutions,    (* the outer solve has found a candidate                      *)
  ran_out       (* history: this pass was cut short by time                   *)

hm_vars ==
  <<hm_options, hm_pc, timelimit, cache_warmup, nneigh, expired, mapping, result, solutions, ran_out>>

Statuses == {"success", "failure", "timeout"}
Contents == {"empty", "ops", "routed"}
Mappings == [status : Statuses, contents : Contents]
Switches ==
  [do_cache_warmup : BOOLEAN, do_test_placement : BOOLEAN, do_final_combined_attempt : BOOLEAN]
Solving == {"test", "outer", "candidates", "inner", "combined"}
HMPhases == Solving \cup {"idle", "loop", "leave", "done", "thrown"}

(* Mapping::clear constructs the mapping anew: its status is failure.      *)
EmptyMapping == [status |-> "failure", contents |-> "empty"]

(* What mapViaConnectivityAndPathChoosing returns when the first solution  *)
(* is accepted, and when it only warms up the caches.                      *)
Outcomes == {"solution", "no solution", "time limit"}
AcceptKeepsContents(outcome, contents) ==
  [status |-> IF outcome = "solution" THEN "success"
              ELSE IF outcome = "time limit" THEN "timeout" ELSE "failure",
   contents |-> contents]
acceptTheFirstSolution(outcome, contents) ==
  [status |-> IF outcome = "solution" THEN "success"
              ELSE IF outcome = "time limit" THEN "timeout" ELSE "failure",
   contents |-> IF outcome = "solution" THEN contents ELSE "empty"]
WarmedUp == [status |-> "success", contents |-> "empty"]

isMapped(m) == m.status = "success"

(* The limit of a solve is the time remaining, so a solve that reaches it  *)
(* leaves none.                                                            *)
TimePasses(outcome) ==
  /\ expired' \in {expired, TRUE}
  /\ outcome = "time limit" => expired'
  /\ ran_out' = (ran_out \/ outcome = "time limit")

-----------------------------------------------------------------------------
(* The first size of a pass; the warm-up only takes the last one.          *)
FirstSize(warmup) == (IF warmup THEN nneigh_stop ELSE nneigh_start) - nneigh_step

HMInit ==
  /\ hm_options \in Switches
  /\ hm_pc = "idle"
  /\ timelimit = 0
  /\ cache_warmup = FALSE
  /\ nneigh = FirstSize(FALSE)
  /\ expired = FALSE
  /\ mapping = EmptyMapping
  /\ result = EmptyMapping
  /\ solutions = FALSE
  /\ ran_out = FALSE

(* mapOpGraph is called: a pass begins.                                    *)
BeginPass(warmup, limit) ==
  /\ hm_pc' = "loop"
  /\ timelimit' = limit
  /\ cache_warmup' = warmup
  /\ nneigh' = FirstSize(warmup)
  /\ expired' = (limit <= 0)
  /\ mapping' = EmptyMapping
  /\ ran_out' = FALSE
  /\ UNCHANGED <<hm_options, result, solutions>>

NextSizeStays ==
  /\ hm_pc = "loop" /\ nneigh < nneigh_stop /\ ~isMapped(mapping)
  /\ nneigh' = IF nneigh < nneigh_start THEN nneigh + nneigh_step ELSE nneigh
  /\ hm_pc' = IF hm_options.do_test_placement THEN "test" ELSE "outer"
  /\ UNCHANGED <<hm_options, timelimit, cache_warmup, expired, mapping, result, solutions, ran_out>>
NextSize ==
  /\ hm_pc = "loop" /\ nneigh < nneigh_stop /\ ~isMapped(mapping)
  /\ nneigh' = nneigh + nneigh_step
  /\ hm_pc' = IF hm_options.do_test_placement THEN "test" ELSE "outer"
  /\ UNCHANGED <<hm_options, timelimit, cache_warmup, expired, mapping, result, solutions, ran_out>>

NoMoreSizes ==
  /\ hm_pc = "loop" /\ (nneigh >= nneigh_stop \/ isMapped(mapping))
  /\ hm_pc' = "leave"
  /\ UNCHANGED <<hm_options, timelimit, cache_warmup, nneigh, expired, mapping, result, solutions, ran_out>>

(* time_remaining() is 0: the mapping is cleared and the loop is left.     *)
OutOfTime ==
  /\ \/ hm_pc \in {"test", "outer"}
     \/ hm_pc = "combined" /\ ~isMapped(mapping) /\ hm_options.do_final_combined_attempt
  /\ expired' = TRUE
  /\ ran_out' = TRUE
  /\ mapping' = EmptyMapping
  /\ hm_pc' = "leave"
  /\ UNCHANGED <<hm_options, timelimit, cache_warmup, nneigh, result, solutions>>

(* A size whose test placement fails is given up.                          *)
TestPlacementBreaks ==
  /\ hm_pc = "test" /\ ~expired
  /\ \E outcome \in Outcomes :
       /\ cache_warmup => outcome = "solution"
       /\ hm_pc' = IF outcome = "solution" THEN "outer" ELSE "leave"
       /\ TimePasses(outcome)
  /\ UNCHANGED <<hm_options, timelimit, cache_warmup, nneigh, mapping, result, solutions>>
TestPlacement ==
  /\ hm_pc = "test" /\ ~expired
  /\ \E outcome \in Outcomes :
       /\ cache_warmup => outcome = "solution"
       /\ hm_pc' = IF outcome = "solution" THEN "outer" ELSE "loop"
       /\ TimePasses(outcome)
  /\ UNCHANGED <<hm_options, timelimit, cache_warmup, nneigh, mapping, result, solutions>>

(* The outer solve starts from the mapping so far.                         *)
OuterSolve ==
  /\ hm_pc = "outer" /\ ~expired
  /\ IF cache_warmup
     THEN mapping' = WarmedUp /\ hm_pc' = "combined" /\ UNCHANGED <<result, solutions>>
     ELSE /\ hm_pc' = "candidates"
          /\ result' = EmptyMapping
          /\ solutions' = FALSE
          /\ UNCHANGED mapping
  /\ UNCHANGED <<hm_options, timelimit, cache_warmup, nneigh, expired, ran_out>>

Candidate ==
  /\ hm_pc = "candidates"
  /\ hm_pc' = "inner"
  /\ solutions' = TRUE
  /\ UNCHANGED <<hm_options, timelimit, cache_warmup, nneigh, expired, mapping, result, ran_out>>

(* The candidate is routed in the callback of the outer solve.  A success  *)
(* aborts the outer solve, any other suggestion is kept as the result.     *)
InnerOutOfTime ==
  /\ hm_pc = "inner"
  /\ expired' = TRUE
  /\ ran_out' = TRUE
  /\ result' = EmptyMapping
  /\ hm_pc' = "candidates"
  /\ UNCHANGED <<hm_options, timelimit, cache_warmup, nneigh, mapping, solutions>>

InnerSolve ==
  /\ hm_pc = "inner" /\ ~expired
  /\ \E outcome \in Outcomes :
       /\ TimePasses(outcome)
       /\ result' = acceptTheFirstSolution(outcome, "routed")
       /\ IF outcome = "solution" THEN hm_pc' = "combined" /\ mapping' = result'
          ELSE hm_pc' = "candidates" /\ UNCHANGED mapping
  /\ UNCHANGED <<hm_options, timelimit, cache_warmup, nneigh, solutions>>

(* No candidate is left, or the limit is reached: only without a candidate *)
(* is that recorded as a timeout.                                          *)
CandidatesEnd ==
  /\ hm_pc = "candidates"
  /\ \E outcome \in {"no solution", "time limit"} :
       /\ TimePasses(outcome)
       /\ mapping' = IF outcome = "time limit" /\ ~solutions
                     THEN [result EXCEPT !.status = "timeout"] ELSE result
  /\ hm_pc' = "combined"
  /\ UNCHANGED <<hm_options, timelimit, cache_warmup, nneigh, result, solutions>>

NoCombined ==
  /\ hm_pc = "combined" /\ (isMapped(mapping) \/ ~hm_options.do_final_combined_attempt)
  /\ hm_pc' = "loop"
  /\ UNCHANGED <<hm_options, timelimit, cache_warmup, nneigh, expired, mapping, result, solutions, ran_out>>

(* The combined attempt has a time limit of its own.                       *)
Combined ==
  /\ hm_pc = "combined" /\ ~isMapped(mapping) /\ hm_options.do_final_combined_attempt /\ ~expired
  /\ \E outcome \in Outcomes : mapping' = acceptTheFirstSolution(outcome, "routed")
  /\ expired' \in BOOLEAN
  /\ ran_out' = (ran_out \/ mapping'.status = "timeout")
  /\ hm_pc' = "loop"
  /\ UNCHANGED <<hm_options, timelimit, cache_warmup, nneigh, result, solutions>>

(* The pass ends.  After the warm-up the real one begins, with the whole   *)
(* time limit.                                                             *)
WarmupEnds == hm_pc = "leave" /\ cache_warmup /\ BeginPass(FALSE, timelimit)
PassEnds ==
  /\ hm_pc = "leave" /\ ~cache_warmup
  /\ hm_pc' = "done"
  /\ UNCHANGED <<hm_options, timelimit, cache_warmup, nneigh, expired, mapping, result, solutions, ran_out>>

SolverThrows ==
  /\ hm_pc \in Solving
  /\ hm_pc' = "thrown"
  /\ UNCHANGED <<hm_options, timelimit, cache_warmup, nneigh, expired, mapping, result, solutions, ran_out>>

SolveEnds == TestPlacement \/ InnerOutOfTime \/ InnerSolve \/ CandidatesEnd \/ Combined \/ OutOfTime
HMNext ==
  \/ NextSize \/ NoMoreSizes \/ OuterSolve \/ Candidate \/ NoCombined
  \/ SolveEnds \/ WarmupEnds \/ PassEnds \/ SolverThrows

-----------------------------------------------------------------------------
HMTypeOK ==
  /\ hm_options \in Switches
  /\ hm_pc \in HMPhases
  /\ timelimit \in Int
  /\ cache_warmup \in BOOLEAN
  /\ nneigh \in Int
  /\ expired \in BOOLEAN
  /\ mapping \in Mappings /\ result \in Mappings
  /\ solutions \in BOOLEAN /\ ran_out \in BOOLEAN

(* A solve that begins finds no op placed by an earlier one: leftovers     *)
(* would block FUs (mrrg_node_is_free_or_used_by_op_node) for the larger   *)
(* sizes.  A mapping that is not a success maps nothing.                   *)
FailedMapsNothing == mapping.contents # "empty" => isMapped(mapping)

(* A mapping that is returned as a success has been routed: neither the    *)
(* "success" of the warm-up nor a test placement gets out.                 *)
SuccessIsRouted == hm_pc = "done" /\ isMapped(mapping) => mapping.contents = "routed"

(* Without time pressure, a failure means that the largest size was tried. *)
FailureTriedAllSizes ==
  hm_pc = "done" /\ ~isMapped(mapping) /\ ~ran_out => nneigh >= nneigh_stop
===============================================================================
