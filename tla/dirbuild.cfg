SPECIFICATION Spec
CONSTANTS
  Glob <- MCGlob
  Texts <- MCTexts
  Core <- MCCore
  CoreCalls <- MCCoreCalls
  CoreNeeds <- MCCoreNeeds
  MaxSaves = 2
INVARIANT BuildIsCurrent
INVARIANT RebuildHeals
