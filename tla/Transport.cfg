\* A close() that is over within the other thread's sleep(1), and one that is not.
SPECIFICATION FairSpec
CONSTANTS
  Reader = reader
  Sender = sender
  FdNum = {f3, f4}
  MaxLinks = 2
  MaxOthers = 2
  None = None
INVARIANTS TypeOK NoDescriptorLeak StaleOnlyWhileClosing ReportedOnce OneLinkPerMessage
PROPERTIES LinkServed DeadLinkDropped
