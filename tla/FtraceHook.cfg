\* demo_hooks holds two hooks.
SPECIFICATION FairSpec
CONSTANTS
  Tasks = {t1, t2}
  Count = 2
INVARIANTS NothingLeft FilteredWhileRegistered OriginalKnown RunsOnce
PROPERTIES LoaderReturns
