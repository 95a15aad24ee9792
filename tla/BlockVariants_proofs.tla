-------------------------- MODULE BlockVariants_proofs --------------------------
(***************************************************************************)
(* Proofs about the variants of BlockCommit: what BlockCommit_proofs says  *)
(* of a configuration holds of the variant that runs, for every value of   *)
(* the constants that Config and the others may have.  The assumptions of  *)
(* BlockCommit on its constants are proved of each variant.                *)
(***************************************************************************)
EXTENDS BlockVariants, TLAPS

FP == INSTANCE BlockCommit_proofs WITH
  Tokens <- Config["finish"].Tokens, Words <- Config["finish"].Words,
  Signatures <- Config["finish"].Signatures, Encoded <- Config["finish"].Encoded,
  Opens <- Config["finish"].Opens,
  Closes <- Config["finish"].Closes, Oov <- Config["finish"].Oov,
  Stops <- Config["finish"].Stops, Structured <- TRUE,
  Reasons <- Config["finish"].Reasons, NumSpec <- Config["finish"].NumSpec,
  Views <- Config["finish"].Views, Resumes <- Config["finish"].Resumes,
  GrammarSalvage <- Config["finish"].GrammarSalvage,
  SalvageBudget <- Config["finish"].SalvageBudget,
  MaxTokens <- Config["finish"].MaxTokens, Policy <- "finish"

VP == INSTANCE BlockCommit_proofs WITH
  Tokens <- Config["covered"].Tokens, Words <- Config["covered"].Words,
  Signatures <- Config["covered"].Signatures, Encoded <- Config["covered"].Encoded,
  Opens <- Config["covered"].Opens,
  Closes <- Config["covered"].Closes, Oov <- Config["covered"].Oov,
  Stops <- Config["covered"].Stops, Structured <- TRUE,
  Reasons <- Config["covered"].Reasons, NumSpec <- Config["covered"].NumSpec,
  Views <- Config["covered"].Views, Resumes <- Config["covered"].Resumes,
  GrammarSalvage <- Config["covered"].GrammarSalvage,
  SalvageBudget <- Config["covered"].SalvageBudget,
  MaxTokens <- Config["covered"].MaxTokens, Policy <- "commit"

-------------------------------------------------------------------------------
(* A request under the finish policy. *)

\* The variant is one that BlockCommit is about.
LEMMA FinishConfigured == FP!WordsAssumption /\ FP!CommitAssumption /\ FP!WatchAssumption
<1>1. FP!WordsAssumption
  BY VariantsAssumption DEF FP!WordsAssumption, Variants
<1>2. FP!CommitAssumption
  BY VariantsAssumption, SharedAssumption DEF FP!CommitAssumption, Variants
<1>3. FP!WatchAssumption
  BY VariantsAssumption, SharedAssumption DEF FP!WatchAssumption, Variants
<1> QED
  BY <1>1, <1>2, <1>3

\* The two instances of the module take the same steps.
LEMMA FinishSame == (Finish!Init <=> FP!Init) /\ (Finish!Next <=> FP!Next)
<1>1. Finish!Init <=> FP!Init
  BY DEF Finish!Init, FP!Init, Finish!Off, FP!Off
<1>2. ASSUME NEW S PROVE Finish!Min(S) = FP!Min(S)
  BY DEF Finish!Min, FP!Min
<1>3. ASSUME NEW S PROVE Finish!Max(S) = FP!Max(S)
  BY DEF Finish!Max, FP!Max
<1>4. ASSUME NEW S PROVE Finish!Cardinality(S) = FP!Cardinality(S)
  BY DEF Finish!Cardinality, FP!Cardinality
<1>5. ASSUME NEW s, NEW t PROVE Finish!Probe(s, t) = FP!Probe(s, t)
  BY <1>3 DEF Finish!Probe, FP!Probe, Finish!Take, FP!Take, Finish!Reachable,
     FP!Reachable
<1>6. ASSUME NEW s, NEW t PROVE Finish!ProbeTerminates(s, t) <=> FP!ProbeTerminates(s,
   t)
  BY <1>5 DEF Finish!ProbeTerminates, FP!ProbeTerminates, Finish!Terminated,
     FP!Terminated, Finish!Take, FP!Take
<1>7. ASSUME NEW s, NEW t PROVE Finish!AcceptsTokens(s, t) <=> FP!AcceptsTokens(s, t)
  BY <1>5, <1>6 DEF Finish!AcceptsTokens, FP!AcceptsTokens, Finish!Terminated,
     FP!Terminated
<1>8. ASSUME NEW s, NEW t PROVE Finish!Advanced(s, t) = FP!Advanced(s, t)
  BY <1>5 DEF Finish!Advanced, FP!Advanced, Finish!Take, FP!Take
<1>9. ASSUME NEW s, NEW d, NEW v PROVE Finish!ShownDrafts(s, d, v) = FP!ShownDrafts(s,
   d, v)
  BY <1>5 DEF Finish!ShownDrafts, FP!ShownDrafts
<1>10. ASSUME NEW s, NEW d, NEW p, NEW i, NEW t PROVE Finish!RowAllows(s, d, p, i, t)
   <=> FP!RowAllows(s, d, p, i, t)
  BY <1>2 DEF Finish!RowAllows, FP!RowAllows, Finish!Take, FP!Take, Finish!Terminated,
     FP!Terminated, Finish!Reachable, FP!Reachable
<1>11. ASSUME NEW t, NEW n PROVE Finish!LastTokens(t, n) = FP!LastTokens(t, n)
  BY <1>3 DEF Finish!LastTokens, FP!LastTokens
<1>12. ASSUME NEW s, NEW t PROVE Finish!Occurrences(s, t) = FP!Occurrences(s, t)
  BY DEF Finish!Occurrences, FP!Occurrences
<1>13. ASSUME NEW t PROVE Finish!SignatureHit(t) <=> FP!SignatureHit(t)
  BY <1>11, <1>12 DEF Finish!SignatureHit, FP!SignatureHit
<1>14. ASSUME NEW t, NEW n PROVE Finish!SoupTags(t, n) = FP!SoupTags(t, n)
  BY <1>11, <1>12 DEF Finish!SoupTags, FP!SoupTags, Finish!SigFirstIds, FP!SigFirstIds
<1>15. ASSUME NEW t PROVE Finish!CleanCut(t) = FP!CleanCut(t)
  BY DEF Finish!CleanCut, FP!CleanCut, Finish!LastTokens, FP!LastTokens, Finish!Max,
     FP!Max, Finish!Min, FP!Min
<1>16. ASSUME NEW t, NEW n PROVE Finish!RepeatsLine(t, n) <=> FP!RepeatsLine(t, n)
  BY <1>11, <1>3, <1>4 DEF Finish!RepeatsLine, FP!RepeatsLine, Finish!RepetitionWindow,
     FP!RepetitionWindow
<1>17. ASSUME NEW t PROVE Finish!GrammarTokens(t) = FP!GrammarTokens(t)
  BY <1>2 DEF Finish!GrammarTokens, FP!GrammarTokens, Finish!GrammarStart,
     FP!GrammarStart
<1>18. ASSUME NEW t PROVE Finish!GrammarStart(t) = FP!GrammarStart(t)
  BY <1>2 DEF Finish!GrammarStart, FP!GrammarStart
<1>19. ASSUME NEW b PROVE Finish!Kind(b) = FP!Kind(b)
  BY <1>17, <1>5, <1>6 DEF Finish!Kind, FP!Kind
<1>20. ASSUME NEW b PROVE Finish!Kept(b) = FP!Kept(b)
  BY <1>19, <1>17, <1>18, <1>5 DEF Finish!Kept, FP!Kept, Finish!Take, FP!Take
<1>21. ASSUME NEW b PROVE Finish!Budget(b) = FP!Budget(b)
  BY <1>19 DEF Finish!Budget, FP!Budget, Finish!Off, FP!Off
<1>22. ASSUME NEW b PROVE Finish!Watch(b) = FP!Watch(b)
  BY <1>19 DEF Finish!Watch, FP!Watch
<1>23. ASSUME NEW b, NEW n PROVE Finish!After(b, n) = FP!After(b, n)
  BY <1>20 DEF Finish!After, FP!After, Finish!Take, FP!Take
<1>24. ASSUME NEW b, NEW n PROVE Finish!CapAt(b, n) <=> FP!CapAt(b, n)
  BY <1>21 DEF Finish!CapAt, FP!CapAt, Finish!Off, FP!Off
<1>25. ASSUME NEW b, NEW n PROVE Finish!SignatureAt(b, n) <=> FP!SignatureAt(b, n)
  BY <1>22, <1>23, <1>13 DEF Finish!SignatureAt, FP!SignatureAt
<1>26. ASSUME NEW b, NEW n PROVE Finish!StopAt(b, n) <=> FP!StopAt(b, n)
  BY <1>20 DEF Finish!StopAt, FP!StopAt
<1>27. ASSUME NEW b PROVE Finish!Committed(b) = FP!Committed(b)
  <2>1. {n \in 1..Len(Finish!Kept(b)) : Finish!CapAt(b, n) \/ Finish!SignatureAt(b, n) \/ Finish!StopAt(b, n)}
        = {n \in 1..Len(FP!Kept(b)) : FP!CapAt(b, n) \/ FP!SignatureAt(b, n) \/ FP!StopAt(b, n)}
    BY <1>20, <1>24, <1>25, <1>26
  <2> QED
    BY <2>1, <1>20, <1>2 DEF Finish!Committed, FP!Committed
<1>28. ASSUME NEW n PROVE Finish!FlooredCut(n) = FP!FlooredCut(n)
  BY <1>3 DEF Finish!FlooredCut, FP!FlooredCut
<1>29. ASSUME NEW b PROVE Finish!Survives(b) <=> FP!Survives(b)
  BY <1>20, <1>24, <1>25, <1>26 DEF Finish!Survives, FP!Survives
<1>30. ASSUME NEW b PROVE Finish!NextStreaks(b) = FP!NextStreaks(b)
  BY <1>20, <1>23, <1>14 DEF Finish!NextStreaks, FP!NextStreaks
<1>31. ASSUME NEW b PROVE Finish!NextTotals(b) = FP!NextTotals(b)
  BY <1>20, <1>23, <1>14 DEF Finish!NextTotals, FP!NextTotals
<1>32. ASSUME NEW b PROVE Finish!NextRepStreak(b) = FP!NextRepStreak(b)
  BY <1>20, <1>23, <1>16 DEF Finish!NextRepStreak, FP!NextRepStreak
<1>33. ASSUME NEW b PROVE Finish!Soup(b) <=> FP!Soup(b)
  BY <1>30, <1>31 DEF Finish!Soup, FP!Soup
<1>34. ASSUME NEW b PROVE Finish!Committable(b) <=> FP!Committable(b)
  BY <1>20 DEF Finish!Committable, FP!Committable
<1>35. ASSUME NEW b, NEW cut, NEW how PROVE Finish!Keep(b, cut, how) <=> FP!Keep(b, cut,
   how)
  BY <1>20, <1>19, <1>17, <1>7, <1>8, <1>21, <1>22, <1>27 DEF Finish!Keep, FP!Keep,
     Finish!Take, FP!Take, Finish!Off, FP!Off, Finish!ToSet, FP!ToSet
<1>36. ASSUME NEW d, NEW m, NEW t, NEW v PROVE Finish!Allowed(d, m, t, v) <=>
   FP!Allowed(d, m, t, v)
  BY <1>9, <1>10 DEF Finish!Allowed, FP!Allowed
<1>37. ASSUME NEW k, NEW m, NEW v PROVE Finish!Sample(k, m, v) <=> FP!Sample(k, m, v)
  BY <1>36 DEF Finish!Sample, FP!Sample, Finish!Take, FP!Take, Finish!matcherVars,
     FP!matcherVars, Finish!guardVars, FP!guardVars, Finish!tripwireVars,
     FP!tripwireVars
<1>38. ASSUME NEW b PROVE Finish!FinishOov(b) <=> FP!FinishOov(b)
  BY DEF Finish!FinishOov, FP!FinishOov, Finish!guardVars, FP!guardVars,
     Finish!tripwireVars, FP!tripwireVars
<1>39. ASSUME NEW b PROVE Finish!FinishEmpty(b) <=> FP!FinishEmpty(b)
  BY <1>20, <1>19 DEF Finish!FinishEmpty, FP!FinishEmpty, Finish!matcherVars,
     FP!matcherVars, Finish!guardVars, FP!guardVars, Finish!tripwireVars,
     FP!tripwireVars
<1>40. ASSUME NEW b PROVE Finish!FinishCap(b) <=> FP!FinishCap(b)
  BY <1>27, <1>34, <1>24, <1>35, <1>2, <1>15, <1>23 DEF Finish!FinishCap, FP!FinishCap,
     Finish!tripwireVars, FP!tripwireVars
<1>41. ASSUME NEW b PROVE Finish!FinishSignature(b) <=> FP!FinishSignature(b)
  BY <1>27, <1>34, <1>24, <1>25, <1>35, <1>28 DEF Finish!FinishSignature,
     FP!FinishSignature, Finish!tripwireVars, FP!tripwireVars
<1>42. ASSUME NEW b PROVE Finish!FinishStop(b) <=> FP!FinishStop(b)
  BY <1>27, <1>34, <1>24, <1>25, <1>26, <1>35 DEF Finish!FinishStop, FP!FinishStop,
     Finish!tripwireVars, FP!tripwireVars
<1>43. ASSUME NEW b PROVE Finish!FinishSoup(b) <=> FP!FinishSoup(b)
  BY <1>34, <1>29, <1>33, <1>35, <1>28, <1>20, <1>30, <1>31 DEF Finish!FinishSoup,
     FP!FinishSoup
<1>44. ASSUME NEW b PROVE Finish!FinishRepetition(b) <=> FP!FinishRepetition(b)
  BY <1>34, <1>29, <1>33, <1>35, <1>30, <1>31, <1>32 DEF Finish!FinishRepetition,
     FP!FinishRepetition
<1>45. ASSUME NEW b PROVE Finish!Commit(b) <=> FP!Commit(b)
  BY <1>34, <1>29, <1>33, <1>35, <1>20, <1>19, <1>30, <1>31, <1>32 DEF Finish!Commit,
     FP!Commit
<1>46. Finish!UpdateFromOutput <=> FP!UpdateFromOutput
  BY <1>38, <1>39, <1>40, <1>41, <1>42, <1>43, <1>44, <1>45 DEF Finish!UpdateFromOutput,
     FP!UpdateFromOutput
<1>47. Finish!Run <=> FP!Run
  BY <1>37 DEF Finish!Run, FP!Run
<1>48. Finish!Next <=> FP!Next
  BY <1>46, <1>47 DEF Finish!Next, FP!Next, Finish!Skip, FP!Skip, Finish!Done, FP!Done,
     Finish!vars, FP!vars, Finish!matcherVars, FP!matcherVars, Finish!guardVars,
     FP!guardVars, Finish!tripwireVars, FP!tripwireVars
<1> QED
  BY <1>1, <1>48

\* ... and have the same property.
LEMMA FinishPropertySame == Finish!FinishedAnswerValid <=> FP!FinishedAnswerValid
BY DEF Finish!FinishedAnswerValid, FP!FinishedAnswerValid, Finish!Answer, FP!Answer,
   Finish!Reachable, FP!Reachable, Finish!Min, FP!Min

\* Under the finish policy nothing that the grammar rejects is delivered, for every
\* grammar and window, in the graph that the three variants share.
THEOREM AnswersFinish == Spec => []FinishedAnswerValid
<1> DEFINE Runs == variant = "finish"
         Holds == FP!FinishedAnswerValid
<1>1. Runs /\ Init => FP!Init
  BY FinishSame DEF Init
<1>2. Runs /\ [Next]_vars => [FP!Next]_(FP!vars)
  BY FinishSame DEF Next, vars, FP!vars, FP!matcherVars, FP!guardVars, FP!tripwireVars
<1>3. [Next]_vars => (Runs <=> Runs')
  BY DEF Next, vars
<1>4. FP!Spec => []Holds
  <2>1. FP!WindowsHaveDrafts /\ Config["finish"].Words # {}
    BY DraftsAssumption, VariantsAssumption DEF FP!WindowsHaveDrafts, Variants
  <2> QED
    BY <2>1, FinishConfigured, FP!FinishedAnswers
<1>5. (Runs => Holds) => FinishedAnswerValid
  BY FinishPropertySame DEF FinishedAnswerValid
<1> HIDE DEF Runs, Holds
<1> QED
  BY <1>1, <1>2, <1>3, <1>4, <1>5, PTL DEF Spec, FP!Spec

-------------------------------------------------------------------------------
(* A request whose windows all show their drafts. *)

\* The variant is one that BlockCommit is about.
LEMMA CoveredConfigured == VP!WordsAssumption /\ VP!CommitAssumption /\ VP!WatchAssumption
<1>1. VP!WordsAssumption
  BY VariantsAssumption DEF VP!WordsAssumption, Variants
<1>2. VP!CommitAssumption
  BY VariantsAssumption, SharedAssumption DEF VP!CommitAssumption, Variants
<1>3. VP!WatchAssumption
  BY VariantsAssumption, SharedAssumption DEF VP!WatchAssumption, Variants
<1> QED
  BY <1>1, <1>2, <1>3

\* The two instances of the module take the same steps.
LEMMA CoveredSame == (Covered!Init <=> VP!Init) /\ (Covered!Next <=> VP!Next)
<1>1. Covered!Init <=> VP!Init
  BY DEF Covered!Init, VP!Init, Covered!Off, VP!Off
<1>2. ASSUME NEW S PROVE Covered!Min(S) = VP!Min(S)
  BY DEF Covered!Min, VP!Min
<1>3. ASSUME NEW S PROVE Covered!Max(S) = VP!Max(S)
  BY DEF Covered!Max, VP!Max
<1>4. ASSUME NEW S PROVE Covered!Cardinality(S) = VP!Cardinality(S)
  BY DEF Covered!Cardinality, VP!Cardinality
<1>5. ASSUME NEW s, NEW t PROVE Covered!Probe(s, t) = VP!Probe(s, t)
  BY <1>3 DEF Covered!Probe, VP!Probe, Covered!Take, VP!Take, Covered!Reachable,
     VP!Reachable
<1>6. ASSUME NEW s, NEW t PROVE Covered!ProbeTerminates(s, t) <=> VP!ProbeTerminates(s,
   t)
  BY <1>5 DEF Covered!ProbeTerminates, VP!ProbeTerminates, Covered!Terminated,
     VP!Terminated, Covered!Take, VP!Take
<1>7. ASSUME NEW s, NEW t PROVE Covered!AcceptsTokens(s, t) <=> VP!AcceptsTokens(s, t)
  BY <1>5, <1>6 DEF Covered!AcceptsTokens, VP!AcceptsTokens, Covered!Terminated,
     VP!Terminated
<1>8. ASSUME NEW s, NEW t PROVE Covered!Advanced(s, t) = VP!Advanced(s, t)
  BY <1>5 DEF Covered!Advanced, VP!Advanced, Covered!Take, VP!Take
<1>9. ASSUME NEW s, NEW d, NEW v PROVE Covered!ShownDrafts(s, d, v) = VP!ShownDrafts(s,
   d, v)
  BY <1>5 DEF Covered!ShownDrafts, VP!ShownDrafts
<1>10. ASSUME NEW s, NEW d, NEW p, NEW i, NEW t PROVE Covered!RowAllows(s, d, p, i, t)
   <=> VP!RowAllows(s, d, p, i, t)
  BY <1>2 DEF Covered!RowAllows, VP!RowAllows, Covered!Take, VP!Take,
     Covered!Terminated, VP!Terminated, Covered!Reachable, VP!Reachable
<1>11. ASSUME NEW t, NEW n PROVE Covered!LastTokens(t, n) = VP!LastTokens(t, n)
  BY <1>3 DEF Covered!LastTokens, VP!LastTokens
<1>12. ASSUME NEW s, NEW t PROVE Covered!Occurrences(s, t) = VP!Occurrences(s, t)
  BY DEF Covered!Occurrences, VP!Occurrences
<1>13. ASSUME NEW t PROVE Covered!SignatureHit(t) <=> VP!SignatureHit(t)
  BY <1>11, <1>12 DEF Covered!SignatureHit, VP!SignatureHit
<1>14. ASSUME NEW t, NEW n PROVE Covered!SoupTags(t, n) = VP!SoupTags(t, n)
  BY <1>11, <1>12 DEF Covered!SoupTags, VP!SoupTags, Covered!SigFirstIds, VP!SigFirstIds
<1>15. ASSUME NEW t PROVE Covered!CleanCut(t) = VP!CleanCut(t)
  BY DEF Covered!CleanCut, VP!CleanCut, Covered!LastTokens, VP!LastTokens, Covered!Max,
     VP!Max, Covered!Min, VP!Min
<1>16. ASSUME NEW t, NEW n PROVE Covered!RepeatsLine(t, n) <=> VP!RepeatsLine(t, n)
  BY <1>11, <1>3, <1>4 DEF Covered!RepeatsLine, VP!RepeatsLine,
     Covered!RepetitionWindow, VP!RepetitionWindow
<1>17. ASSUME NEW t PROVE Covered!GrammarTokens(t) = VP!GrammarTokens(t)
  BY <1>2 DEF Covered!GrammarTokens, VP!GrammarTokens, Covered!GrammarStart,
     VP!GrammarStart
<1>18. ASSUME NEW t PROVE Covered!GrammarStart(t) = VP!GrammarStart(t)
  BY <1>2 DEF Covered!GrammarStart, VP!GrammarStart
<1>19. ASSUME NEW b PROVE Covered!Kind(b) = VP!Kind(b)
  BY <1>17, <1>5, <1>6 DEF Covered!Kind, VP!Kind
<1>20. ASSUME NEW b PROVE Covered!Kept(b) = VP!Kept(b)
  BY <1>19, <1>17, <1>18, <1>5 DEF Covered!Kept, VP!Kept, Covered!Take, VP!Take
<1>21. ASSUME NEW b PROVE Covered!Budget(b) = VP!Budget(b)
  BY <1>19 DEF Covered!Budget, VP!Budget, Covered!Off, VP!Off
<1>22. ASSUME NEW b PROVE Covered!Watch(b) = VP!Watch(b)
  BY <1>19 DEF Covered!Watch, VP!Watch
<1>23. ASSUME NEW b, NEW n PROVE Covered!After(b, n) = VP!After(b, n)
  BY <1>20 DEF Covered!After, VP!After, Covered!Take, VP!Take
<1>24. ASSUME NEW b, NEW n PROVE Covered!CapAt(b, n) <=> VP!CapAt(b, n)
  BY <1>21 DEF Covered!CapAt, VP!CapAt, Covered!Off, VP!Off
<1>25. ASSUME NEW b, NEW n PROVE Covered!SignatureAt(b, n) <=> VP!SignatureAt(b, n)
  BY <1>22, <1>23, <1>13 DEF Covered!SignatureAt, VP!SignatureAt
<1>26. ASSUME NEW b, NEW n PROVE Covered!StopAt(b, n) <=> VP!StopAt(b, n)
  BY <1>20 DEF Covered!StopAt, VP!StopAt
<1>27. ASSUME NEW b PROVE Covered!Committed(b) = VP!Committed(b)
  <2>1. {n \in 1..Len(Covered!Kept(b)) : Covered!CapAt(b, n) \/ Covered!SignatureAt(b, n) \/ Covered!StopAt(b, n)}
        = {n \in 1..Len(VP!Kept(b)) : VP!CapAt(b, n) \/ VP!SignatureAt(b, n) \/ VP!StopAt(b, n)}
    BY <1>20, <1>24, <1>25, <1>26
  <2> QED
    BY <2>1, <1>20, <1>2 DEF Covered!Committed, VP!Committed
<1>28. ASSUME NEW n PROVE Covered!FlooredCut(n) = VP!FlooredCut(n)
  BY <1>3 DEF Covered!FlooredCut, VP!FlooredCut
<1>29. ASSUME NEW b PROVE Covered!Survives(b) <=> VP!Survives(b)
  BY <1>20, <1>24, <1>25, <1>26 DEF Covered!Survives, VP!Survives
<1>30. ASSUME NEW b PROVE Covered!NextStreaks(b) = VP!NextStreaks(b)
  BY <1>20, <1>23, <1>14 DEF Covered!NextStreaks, VP!NextStreaks
<1>31. ASSUME NEW b PROVE Covered!NextTotals(b) = VP!NextTotals(b)
  BY <1>20, <1>23, <1>14 DEF Covered!NextTotals, VP!NextTotals
<1>32. ASSUME NEW b PROVE Covered!NextRepStreak(b) = VP!NextRepStreak(b)
  BY <1>20, <1>23, <1>16 DEF Covered!NextRepStreak, VP!NextRepStreak
<1>33. ASSUME NEW b PROVE Covered!Soup(b) <=> VP!Soup(b)
  BY <1>30, <1>31 DEF Covered!Soup, VP!Soup
<1>34. ASSUME NEW b PROVE Covered!Committable(b) <=> VP!Committable(b)
  BY <1>20 DEF Covered!Committable, VP!Committable
<1>35. ASSUME NEW b, NEW cut, NEW how PROVE Covered!Keep(b, cut, how) <=> VP!Keep(b,
   cut, how)
  BY <1>20, <1>19, <1>17, <1>7, <1>8, <1>21, <1>22, <1>27 DEF Covered!Keep, VP!Keep,
     Covered!Take, VP!Take, Covered!Off, VP!Off, Covered!ToSet, VP!ToSet
<1>36. ASSUME NEW d, NEW m, NEW t, NEW v PROVE Covered!Allowed(d, m, t, v) <=>
   VP!Allowed(d, m, t, v)
  BY <1>9, <1>10 DEF Covered!Allowed, VP!Allowed
<1>37. ASSUME NEW k, NEW m, NEW v PROVE Covered!Sample(k, m, v) <=> VP!Sample(k, m, v)
  BY <1>36 DEF Covered!Sample, VP!Sample, Covered!Take, VP!Take, Covered!matcherVars,
     VP!matcherVars, Covered!guardVars, VP!guardVars, Covered!tripwireVars,
     VP!tripwireVars
<1>38. ASSUME NEW b PROVE Covered!FinishOov(b) <=> VP!FinishOov(b)
  BY DEF Covered!FinishOov, VP!FinishOov, Covered!guardVars, VP!guardVars,
     Covered!tripwireVars, VP!tripwireVars
<1>39. ASSUME NEW b PROVE Covered!FinishEmpty(b) <=> VP!FinishEmpty(b)
  BY <1>20, <1>19 DEF Covered!FinishEmpty, VP!FinishEmpty, Covered!matcherVars,
     VP!matcherVars, Covered!guardVars, VP!guardVars, Covered!tripwireVars,
     VP!tripwireVars
<1>40. ASSUME NEW b PROVE Covered!FinishCap(b) <=> VP!FinishCap(b)
  BY <1>27, <1>34, <1>24, <1>35, <1>2, <1>15, <1>23 DEF Covered!FinishCap, VP!FinishCap,
     Covered!tripwireVars, VP!tripwireVars
<1>41. ASSUME NEW b PROVE Covered!FinishSignature(b) <=> VP!FinishSignature(b)
  BY <1>27, <1>34, <1>24, <1>25, <1>35, <1>28 DEF Covered!FinishSignature,
     VP!FinishSignature, Covered!tripwireVars, VP!tripwireVars
<1>42. ASSUME NEW b PROVE Covered!FinishStop(b) <=> VP!FinishStop(b)
  BY <1>27, <1>34, <1>24, <1>25, <1>26, <1>35 DEF Covered!FinishStop, VP!FinishStop,
     Covered!tripwireVars, VP!tripwireVars
<1>43. ASSUME NEW b PROVE Covered!FinishSoup(b) <=> VP!FinishSoup(b)
  BY <1>34, <1>29, <1>33, <1>35, <1>28, <1>20, <1>30, <1>31 DEF Covered!FinishSoup,
     VP!FinishSoup
<1>44. ASSUME NEW b PROVE Covered!FinishRepetition(b) <=> VP!FinishRepetition(b)
  BY <1>34, <1>29, <1>33, <1>35, <1>30, <1>31, <1>32 DEF Covered!FinishRepetition,
     VP!FinishRepetition
<1>45. ASSUME NEW b PROVE Covered!Commit(b) <=> VP!Commit(b)
  BY <1>34, <1>29, <1>33, <1>35, <1>20, <1>19, <1>30, <1>31, <1>32 DEF Covered!Commit,
     VP!Commit
<1>46. Covered!UpdateFromOutput <=> VP!UpdateFromOutput
  BY <1>38, <1>39, <1>40, <1>41, <1>42, <1>43, <1>44, <1>45 DEF
     Covered!UpdateFromOutput, VP!UpdateFromOutput
<1>47. Covered!Run <=> VP!Run
  BY <1>37 DEF Covered!Run, VP!Run
<1>48. Covered!Next <=> VP!Next
  BY <1>46, <1>47 DEF Covered!Next, VP!Next, Covered!Skip, VP!Skip, Covered!Done,
     VP!Done, Covered!vars, VP!vars, Covered!matcherVars, VP!matcherVars,
     Covered!guardVars, VP!guardVars, Covered!tripwireVars, VP!tripwireVars
<1> QED
  BY <1>1, <1>48

\* ... and have the same property.
LEMMA CoveredPropertySame == Covered!EnforcementHolds <=> VP!EnforcementHolds
BY DEF Covered!EnforcementHolds, VP!EnforcementHolds

\* With drafts in every window enforcement is never abandoned, for every grammar and
\* window, in the graph that the three variants share.
THEOREM EnforcementStays == Spec => []EnforcementHolds
<1> DEFINE Runs == variant = "covered"
         Holds == VP!EnforcementHolds
<1>1. Runs /\ Init => VP!Init
  BY CoveredSame DEF Init
<1>2. Runs /\ [Next]_vars => [VP!Next]_(VP!vars)
  BY CoveredSame DEF Next, vars, VP!vars, VP!matcherVars, VP!guardVars, VP!tripwireVars
<1>3. [Next]_vars => (Runs <=> Runs')
  BY DEF Next, vars
<1>4. VP!Spec => []Holds
  <2>1. VP!WindowsHaveDrafts /\ Config["covered"].Words # {} /\ ~Config["covered"].Reasons
     /\ Config["covered"].Views \subseteq {"drafts"}
    BY DraftsAssumption, VariantsAssumption, CoveredAssumption DEF VP!WindowsHaveDrafts, Variants
  <2> QED
    BY <2>1, CoveredConfigured, VP!EnforcementLasts
<1>5. (Runs => Holds) => EnforcementHolds
  BY CoveredPropertySame DEF EnforcementHolds
<1> HIDE DEF Runs, Holds
<1> QED
  BY <1>1, <1>2, <1>3, <1>4, <1>5, PTL DEF Spec, VP!Spec

===============================================================================
