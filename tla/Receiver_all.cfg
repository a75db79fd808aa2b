SPECIFICATION FairSpec
CONSTANTS
  Cases <- All
INVARIANTS TypeOK Reassembles Answers InSync SizeLimit MessageAppended
PROPERTIES QuietAfterClose Ends
CHECK_DEADLOCK FALSE
