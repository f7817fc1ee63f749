SPECIFICATION Spec
CONSTANTS
  Sub = {s1, s2}
  Client = {c1, c2}
  Nobody = Nobody
  Cred = {k1, k2}
  NoCred = NoCred
  Val = {v1, v2}
  NoVal = NoVal
  None = None
  Gone = Gone
  Ip = {1, 2}
  Type = {"wifi", "tv"}
  Tab = {"wifi", "tv"}
  Pool <- MCPool
  Other = 9
  Look = {"plain", "dark"}
  Default = "plain"
  Tech = {"nobody", "john"}
  NoTech = "nobody"
  Snap = {"christmas", "easter"}
  Pkg = {"hour", "day"}
  Demo = 2
  MaxReq = 2
  Text = {"hello", "sorry"}
  NoText = ""
  Group = {"all", "custom"}
  MaxBursts = 2
  Session = {"p1", "p2"}
  SetupStep = {"mikrotik"}
  SetupDrawer = {"mikrotik"}
  MaxLoads = 2
  Message = {"news"}
  Invoice = {"march"}
INVARIANT TypeOK
INVARIANT AddressesDistinct
INVARIANT StoppedIsTold
INVARIANT AssignedFromPool
INVARIANT PanelIsOneClient
INVARIANT VerifiedWasTested
INVARIANT ConnectedIsSaved
INVARIANT ActiveIsPublished
INVARIANT ListIsServer
INVARIANT BurstOnce
INVARIANT KickedIsGone
INVARIANT ReadIsRead
PROPERTY UntouchedSaveKeepsDesign
CHECK_DEADLOCK FALSE
