SPECIFICATION Spec
CONSTANTS
  Sessions = {s1, s2}
  Names <- Assistants
  Images <- OwnImages
  DefaultImage = "my-ai-image"
  ImageOf <- ImageTable
  FrontendName = "ai-assistant"
  GuiNames = {"gpt4"}
  Launches <- MenuInputs
INVARIANT TypeOK
INVARIANT ShutdownStopsOwn
INVARIANT TwoAtMost
PROPERTY LaunchNeedsLoss
PROPERTY CallMovesOn
