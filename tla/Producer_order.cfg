\* Two queues and four priorities, of which two share a step; nine jobs in
\* batches of four: one cycle over the eight pairs and one more job, two full
\* batches and one job.
CONSTANTS
  Base <- Celery
  NumQueues = 2
  Priorities <- SharedStep
  Jobs = 9
  BatchSize = 4
  OtherKeys <- OneOtherKey
  MaxOrphans = 2
SPECIFICATION FairSpec
INVARIANTS
  ProducerTypeOK
  EachJobOnce
  Fifo
  StepsInOrder
  EvenSpread
PROPERTIES
  SuppliesRounds
  OtherKeysUntouched
  AllJobsTaken
