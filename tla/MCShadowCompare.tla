--------------------------- MODULE MCShadowCompare ---------------------------
(***************************************************************************)
(* Both comparisons over the pairs of graphs of DiffRequests; and beside   *)
(* them the alignment that the comparison of encoded graphs begins with,   *)
(* over graphs of five labels whose blocks are cut in every way.  TgbDiff  *)
(* uses only what TgbAlign promises, so that a behaviour is one of the     *)
(* comparison or one of the alignment: the other is over from the start.   *)
(***************************************************************************)
EXTENDS ShadowCompare, DiffRequests, TgbAlignState

A == INSTANCE TgbAlign

aVars == <<stage, cuts, bLabels, aLabels, differ, block, pairs, matched, gap, at,
           deleted, inserted, rest, runs, todo, marked>>

AllRequests == Edits \cup Shapes \cup Detours

NotAligning ==
    /\ stage = "done" /\ cuts = {} /\ bLabels = << >> /\ aLabels = << >> /\ differ = {}
    /\ block = 1 /\ pairs = << >> /\ matched = << >> /\ gap = 1 /\ at = [b |-> 1, a |-> 1]
    /\ deleted = {} /\ inserted = {} /\ rest = {} /\ runs = << >> /\ todo = << >> /\ marked = {}

NotComparing ==
    /\ request = CHOOSE r \in Requests : TRUE
    /\ phase = "cancelled" /\ changed = << >> /\ seeds = {} /\ distance = << >> /\ queue = << >> /\ visited = {}
    /\ tphase = "cancelled" /\ tchanged = << >> /\ tseeds = {} /\ tdistance = << >>
    /\ tdistArr = << >> /\ tqueue = << >> /\ tvisited = {}
    /\ answer = Nil /\ shadow = "none"

MCInit == (ShadowInit /\ NotAligning) \/ (NotComparing /\ A!Init)

MCNext ==
    \/ ShadowNext /\ UNCHANGED aVars
    \/ A!Next /\ UNCHANGED allVars

MCSpec == MCInit /\ [][MCNext]_<<allVars, aVars>>

MCLabels == 1..5
MCCutSets == SUBSET (1..4)   \* a cut after the last label changes nothing
=============================================================================
