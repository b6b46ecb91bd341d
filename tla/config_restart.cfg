SPECIFICATION ConfigSpec
CONSTANTS
  LLMs = {"anthropic", "openai"}
  DefaultLLM = "anthropic"
  Models = {"m1"}
  DefaultModel <- MCDefaultModel
  Secrets = {"k0", "k1"}
  Clouds = {"aws"}
  CloudKeys = {"id"}
  Containers <- MCContainers
INVARIANT SavedProviderIsUsed
CHECK_DEADLOCK FALSE
