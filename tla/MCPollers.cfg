SPECIFICATION Spec
CONSTANTS
  Channels = {c1, c2, c3, c4}
  FirstOpts = {"kEnReadOpt"}
INVARIANTS TypeOK EachAtItsIndex RecordMatchesKernel WatchesWhatIsEnabled NeverFails
SYMMETRY MCSymmetry
