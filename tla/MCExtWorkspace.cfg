SPECIFICATION FairSpec
CONSTANTS
  Viewers = {k1}
  Outputs = {m1, m2}
  Tags <- TwoTags
  NoViewer = NoViewer
  NoOutput = NoOutput
  NoSpace = NoSpace
  QueueMax = 1
  DropMax = 1
INVARIANTS TypeOK QueuesLive ActiveInView PictureFaithful
PROPERTY DoneComes
