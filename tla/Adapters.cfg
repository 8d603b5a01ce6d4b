SPECIFICATION Spec
CONSTANTS
    Sites <- MCSites
    Callers = {"task"}
    Sessions = {"c1"}
    Verbs <- MCVerbs
    Values = {"half", "off"}
    MaxGone = 1
INVARIANT TypeOK
INVARIANT AnswersItsOwn
INVARIANT EffectsOnEndpoint
 
 
INVARIANT ReadableMeansAnswered
