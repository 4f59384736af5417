SPECIFICATION Spec
CONSTANTS
 Epochs = 2
 Patience = 1
 Accuracy = {0, 1}
 SplitSize = 6
 BatchSize = 2
 Corrupt = {4}
 Class <- MCClass
 memo = memo
 Memo = memo
 Excluded = 1
 Easy = 1
 Extras = 1
 DeviceFaults = {"score"}
 MaxPasses = 3
 Missing = Missing
 Partial = Partial
 Pointer = Pointer
 ShippedTop1 = 1
 MinTop1 = 1
 Volumes = {0, 6}
 MaxFaults = 3
INVARIANTS
 EvaluationCoversSplit
CHECK_DEADLOCK FALSE
