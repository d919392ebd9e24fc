SPECIFICATION Spec
CONSTANTS
  p1 = p1
  p2 = p2
  g = g
  a1 = a1
  a2 = a2
  a3 = a3
  b2 = b2
  Peer <- MCPeer
  NoPeer = NoPeer
  Block <- MCBlock
  Genesis = g
  NoBlock = NoBlock
  Prev <- MCPrev
  Height <- MCHeight
  Tips <- MCTips
  Outbound <- MCOutbound
  Prompt <- MCPrompt
  Submitted <- MCSubmitted
  Window = 2
  MaxInTransit = 2
  RecentHeight = 1
  CompactDepth = 1
INVARIANT FillsOnce
CHECK_DEADLOCK FALSE
