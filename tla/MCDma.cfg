SPECIFICATION Spec
CONSTANTS
  NumChans = 3
  Pollers = {spi_tx, spi_rx}
  Handlers = {uart}
  Keepers = {i2s}
  Copiers = {copy}
  NoUser = none
  Faulty = {i2s}
  CalmResets = TRUE
  PromptAborts = TRUE
INVARIANTS
  ChannelsAccounted
  CompleteToOwner
  ReloadAllowed
