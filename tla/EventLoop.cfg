SPECIFICATION Spec
CONSTANTS
  Functors = {f1, f2, f3}
  Threads = {t1, t2}
  IoChannels = {c1}
  WakeupChannel = wc
  InitEventListSize = 1
  EventfdMax = 2
INVARIANTS NoLostWakeup
PROPERTIES MailboxSpec LoopServes
