SPECIFICATION Spec
CONSTANTS
    deepseek = deepseek
    kimi = kimi
    minimax = minimax
    claude = claude
    NoModelId = NoModelId
    Nothing = Nothing
    ModelIds <- Models
    KnownOpenCodeGoModels <- KnownModels
    DefaultThreshold = 100
    DeepSeekModels <- DeepSeeks
    KimiModels <- Kimis
    AnthropicModels <- Anthropics
    Configs <- AllConfigs
    ClientModels <- AskedModels
    UserWords <- SomeWords
    AnswerKinds <- SomeAnswers
    MaxTurns = 5
INVARIANTS
    TypeOK
    ToolCallsAnswered
    ReasoningAsRequired
    EveryTurnArrives
PROPERTIES
    ScenarioNeverDrops
