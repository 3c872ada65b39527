CONSTANTS
  k1 = k1
  k2 = k2
  private = private
  shared = shared
  ollama = ollama
  vllm = vllm
  cloud = cloud
  Callers = {k1, k2}
  Requests = {private, shared}
  Backends = {ollama, vllm, cloud}
  Cloud = {cloud}
  LocalOnly = {private}
  Accepts <- MCAccepts
  Preference <- MCPreference
  FailureThreshold = 2
  ResetTime = 1
  MaxFallbackAttempts = 2
  MaxCancels = 1
SPECIFICATION FairSpec
CHECK_DEADLOCK FALSE
INVARIANT ClosedBelowThreshold
PROPERTY FirstChoiceRecovers
