SPECIFICATION Spec
CONSTANTS
    Plan <- Models
    Retryable = {"TIMEOUT", "PROVIDER_OR_MODEL_FAILURE"}
    Registry <- MCRegistry
    ClientPrompt <- MCClientPrompt
    Answers <- MCAnswers
    Requests <- MCRequests
    MaxInput = 8
    Index <- MCIndex
    WindowLines = 4
    LinesBefore = 1
    MaxSymbols = 6
    MaxItems = 3
    MaxItemBytes = 8
    MaxTokens = 20
    MaxChanges = 1
    Jobs <- MCJobs
    Evidence <- MCEvidence
    Documents <- MCDocuments
    Counterparts <- MCCounterparts
    LnMilli <- MCLnMilli
    BuildWords = {"pom", "dependency"}
    Revision = "pinned"
    ForgedOutputs <- MCForgedOutputs
    LateInvocations <- MCLateInvocations
    ForeignBundles <- MCForeignBundles
    HeaderBytes = 1
    MaxViewItems = 2
    MaxViewBytes = 9
    MaxVariableBytes = 10
    Unscannable = {4}
INVARIANT FallbackFollowsThePlan
INVARIANT WindowsPartitionTheFile
INVARIANT PackingKeepsTargets
 
INVARIANT RefusalsHaveACause
