SPECIFICATION Spec
CONSTANTS
  MaxItems = 5
  MaxChanges = 2
  PageSize = 2
  MaxResults = 3
  Sources <- TwoSources
  Syncs = {1, 2}
  Entities = {1, 2}
  Links <- OneLink
  MaxBatches = 2
  Replicas = {r1, r2}
  MaxCalls = 3
  MaxAtOnce = 2
  MaxEntries = 3
  Budget = 2
  MaxForgets = 1
  MaxRestarts = 1
  Agents = {a1, a2}
  MaxRegistrations = 3
  MaxDeaths = 1
  Files = {"threshold.py", "agent.md"}
  Checked = {"threshold.py"}
  Python = {"threshold.py"}
  TemplateFile = "threshold.py"
  AgentFile = "agent.md"
  Callers = {"alice"}
  Environments = {"dev", "prod"}
  Policies <- SomePolicies
  MaxRequests = 2
  MaxImports = 1
  MaxPolicies = 2
INVARIANT EveryRequestIsTraced
CHECK_DEADLOCK FALSE
