\* Two topics, two messages, two restarts; the limit and the rings are small.
CONSTANTS
  onboard = onboard
  field = field
  lifecycle = lifecycle
  tts_say = tts_say
  Server = onboard
  Client = field
  Nodes = {onboard, field}
  Topics = {lifecycle, tts_say}
  EarlyCalls <- MCEarlyCalls
  ModuleCalls <- MCModuleCalls
  MainTopics = {lifecycle}
  MaxId = 6
  SLOTS = 2
  LIMIT = 3
  MaxPublish = 2
  MaxRestarts = 2
SPECIFICATION NetworkSpec
INVARIANTS ChannelAgreement ChannelsDistinct ForwardedInOrder LossOnlyAtLimit
