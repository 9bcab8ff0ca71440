--------------------------- MODULE MC_AiContainers ---------------------------
(* Two sessions and three assistants: ai-assistant with the default image,  *)
(* gpt4 and llama with images of their own.                                 *)
EXTENDS AiContainers, TLC

Assistants == {"ai-assistant", "gpt4", "llama"}
OwnImages == {"my-ai-image", "other-image"}
ImageTable == [n \in Assistants |->
                 IF n = "ai-assistant" THEN "my-ai-image" ELSE "other-image"]
MenuInputs == {<<"gpt4", "llama">>}

=============================================================================
