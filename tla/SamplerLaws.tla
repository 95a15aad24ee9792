------------------------------ MODULE SamplerLaws ------------------------------
(***************************************************************************)
(* The rejection sampler and what it is for, in one state graph: a state   *)
(* runs the kernels on a window, or it carries distributions over which    *)
(* the laws of the two methods are summed up.                              *)
(***************************************************************************)
EXTENDS RejectionSampler

CONSTANTS
  LawVocab,   \* the number of tokens of a distribution
  LawWeight   \* its weights add up to this

VARIABLE model   \* a target and a drafter, or the empty sequence

Laws == INSTANCE RejectionLaws WITH TargetVocab <- LawVocab, DraftVocab <- LawVocab

\* The random numbers are fine enough for every ratio of two weights, which is what
\* real numbers are.
ASSUME LawAssumption ==
  /\ LawVocab \in Nat \ {0} /\ LawWeight \in Nat \ {0}
  /\ \A n \in 1..LawWeight : Steps % n = 0

\* A state that carries distributions takes no step.
LawInit ==
  \/ Init /\ model = <<>>
  \/ /\ model \in Laws!Models(LawWeight)
     /\ phase = "verify"
     /\ window = [k |-> 0]
     /\ sampled = [i \in 0..NumSpec |-> 0]
     /\ numSampled = 0
     /\ local = <<>>

LawNext ==
  /\ \/ model = <<>> /\ Next
     \/ model # <<>> /\ UNCHANGED vars
  /\ UNCHANGED model

LawSpec == LawInit /\ [][LawNext]_<<vars, model>>

-------------------------------------------------------------------------------
(* Properties. *)

\* The ratio test and its residual sample from the target (Leviathan et al.).
RatioLaw == model # <<>> => Laws!LeviathanLaw(model)

\* Block verification and its scaled residual sample from the target (Sun et al.).
BlockLaw == model # <<>> => Laws!BlockLaw(model)

===============================================================================
