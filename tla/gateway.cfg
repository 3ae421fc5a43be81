\* Three calls over two gateways of two slots, two attempts each, with either
\* provider and with or without a key. All calls end.
SPECIFICATION FairGatewaySpec
CONSTANTS
  Calls = {c1, c2, c3}
  Gateways = {g1, g2}
  Nobody = Nobody
  MaxConcurrency = 2
  MaxAttempts = 2
INVARIANTS SlotsAccountedFor OneClientPerGateway
PROPERTIES CallEnds
CHECK_DEADLOCK FALSE
