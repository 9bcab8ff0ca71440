SPECIFICATION Spec
CONSTANTS
  Sessions = {s1}
  Names <- Assistants
  Images <- OwnImages
  DefaultImage = "my-ai-image"
  ImageOf <- ImageTable
  FrontendName = "ai-assistant"
  GuiNames = {"gpt4"}
  Launches <- MenuInputs
PROPERTY HealthyLaunchReported
