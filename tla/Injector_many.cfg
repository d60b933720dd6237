\* Three injectors, killed anywhere, with every library.
SPECIFICATION Spec
CONSTANTS
  i1 = i1
  i2 = i2
  i3 = i3
  Injectors <- Three
  Libs = {"good", "noentry", "unloadable"}
  Bases = {TRUE, FALSE}
INVARIANTS TypeOK SecondEntryNeedsOverlap SurvivesInjection LetGoAsFound
PROPERTY InjectorEnds
CHECK_DEADLOCK FALSE
