--------------------------- MODULE StaticAnalysis ---------------------------
(***************************************************************************)
(* The scoring pipeline of the agent: four stages add to a threat score,   *)
(* and the first of the three that check the score ends the analysis when  *)
(* it is above the block threshold.                                        *)
(*                                                                         *)
(* The findings of a file are what its probes report of it:                *)
(*   sig    the verdict score of a matching signature, 0 without a match   *)
(*   trust  what Authenticode says of the file                             *)
(*   pe     what a parsable executable shows, Unparsed otherwise           *)
(***************************************************************************)
EXTENDS Integers

STAT_BLOCK_THRESHOLD == 80

Trust   == {"unsigned", "trusted", "revoked", "untrusted"}
Imports == {"few", "many"}  \* fewer than three, none included, or more

(* ml: the model is more than ML_CERTAINTY_MAL certain; entropy: some section is
   above HEUR_ENTROPY_THRESHOLD; rwx: some section is writable and executable. *)
Pe == [ml : BOOLEAN, packed : BOOLEAN, entropy : BOOLEAN, rwx : BOOLEAN,
       imports : Imports]

Unparsed == [unparsed |-> TRUE]

Findings == [sig : 0 .. 100, trust : Trust, pe : Pe \cup {Unparsed}]

-----------------------------------------------------------------------------
(* AnalysisResult: threat_score, and verdict_allow negated. *)
NewResult == [score |-> 0, blocked |-> FALSE]

Add(a, points) == [a EXCEPT !.score = @ + points]

(* The check at the end of a stage: Block rather than Continue. *)
BlockAbove(a) ==
  IF a.score > STAT_BLOCK_THRESHOLD THEN [a EXCEPT !.blocked = TRUE] ELSE a

SignatureStage(a, sig) == IF sig = 0 THEN a ELSE BlockAbove(Add(a, sig))

TrustScore(trust) ==
  CASE trust = "unsigned"  -> 0
    [] trust = "trusted"   -> -40
    [] trust = "revoked"   -> 100
    [] trust = "untrusted" -> 5

AuthenticodeStage(a, trust) == BlockAbove(Add(a, TrustScore(trust)))

(* The model only adds to the score, it never ends the analysis. *)
MlStage(a, pe) ==
  IF pe # Unparsed /\ pe.ml THEN Add(a, 40) ELSE a

(* score_mod of analyze_pe. *)
HeurScore(pe) ==
  (IF pe.entropy THEN 25 + (IF pe.packed THEN 30 ELSE 0) ELSE 0)
  + (IF pe.rwx THEN 40 ELSE 0)
  + (IF pe.imports = "few" THEN (IF pe.packed THEN 10 ELSE 20) ELSE 0)

HeuristicStage(a, pe) ==
  IF pe = Unparsed THEN a ELSE BlockAbove(Add(a, HeurScore(pe)))

(* A stage runs unless an earlier one has blocked. *)
PeStages(a, pe) ==
  IF a.blocked THEN a ELSE HeuristicStage(MlStage(a, pe), pe)

FileStages(a, trust) ==
  IF a.blocked THEN a ELSE AuthenticodeStage(a, trust)

Analysis(f) ==
  PeStages(FileStages(SignatureStage(NewResult, f.sig), f.trust), f.pe)

(* What analyze_event makes of a score it did not compute itself: a cached one,
   or one it waited for. *)
AllowScore(score) == score <= STAT_BLOCK_THRESHOLD
=============================================================================
