SPECIFICATION Spec
CHECK_DEADLOCK FALSE
INVARIANT ResultsArchitectural
INVARIANT AtomicsKept
INVARIANT TranslationsHonest
 
PROPERTY StepsConfined
INVARIANT FloatsRounded
PROPERTY FpStepsRight
