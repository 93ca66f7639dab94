\* One stream of up to four lines, which an ordinary one of Anthropic has (its
\* prompt counted, a text, its completion counted, the end), and the records of
\* chats behind it.
SPECIFICATION Spec
CONSTANTS
    None = None
    Models = {"anthropic", "gemini", "ollama", "openai", "mock", "lost"}
    PricedModels = {"anthropic", "gemini", "ollama", "openai", "mock", "lost"}
    Serves <- MCServes
    Chain <- MCChain
    Prices <- MCPrices
    Count = 5
    RingSize = 2
    MaxLines = 4
    MaxStreams = 1
    MaxRecords = 3
CHECK_DEADLOCK FALSE
INVARIANTS
    TextsInOrder
    Closed
    Metered
    Books
PROPERTY
    RefinesExecutor
