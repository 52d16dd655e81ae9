SPECIFICATION FairSpec
CONSTANTS
  NumChans = 2
  Pollers = {spi}
  Handlers = {uart}
  Keepers = {}
  Copiers = {}
  NoUser = none
  Faulty = {}
  CalmResets = TRUE
  PromptAborts = TRUE
PROPERTIES
  CompletionReported
