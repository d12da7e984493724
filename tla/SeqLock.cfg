SPECIFICATION FairSpec
CONSTANTS
  r1 = r1
  lo = lo
  hi = hi
  NoPayload = NoPayload
  Words = {lo, hi}
  Vals = {0, 1}
  Zero = 0
  Readers = {r1}
  SeqModulus = 4
  MaxRetries = 2
INVARIANT TypeOK
INVARIANT EvenMeansCompleteUnbroken
PROPERTY AtomicRead
PROPERTY ImplementsRegister
PROPERTY ReadTerminates
