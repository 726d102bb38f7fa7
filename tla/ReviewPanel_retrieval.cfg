SPECIFICATION Spec
CONSTANTS
  a = a  b = b  sem = sem  lone = lone  f = f  doc = doc  scan = scan  quick = quick  question = question  None = None
  Papers = {a, b, sem, lone, f}
  OnArxiv <- MCOnArxiv
  HasAbstract <- MCAbstracts
  Count <- MCCount
  Similar <- MCSimilar
  SimilarRest <- MCSimilarRest
  SearchHits <- MCSearch
  References <- MCReferences
  Citations <- MCCitations
  NumSeeds = 2
  MaxDepth = 2
  PerLevel = 1
  MinRelevance = 30
  MaxBatch = 2
  RrfK = 1
  Options <- MCOptions
  LocalDocs = {doc, scan}
  FileKind <- MCFileKind
  FileText <- MCFileText
  MaxChars = 2
  Joint = joint
  Numerals = {"7"}
  PdfUrl <- MCPdfUrl
  Html <- MCHtml
  PdfPages <- MCPdfPages
  PdfTools = {"text", "missing"}
  TopKCap = 3
  LaneHits = 3
  MaxTries = 2
  ArxivBudget = 2
  S2Budget = 5
  MaxSeedQueries = 2
  Decompositions <- MCDecompositions
  RawQuestion = question
  ArxivHits <- MCArxivHits
  S2Hits <- MCS2Hits
  ChatAnswers <- MCChat
  EmbedAnswers <- MCEmbed
  Jitters = {0, 1}
  Replies <- MCHttp
  RerankAnswers <- MCRerank
  TopicalityReplies <- MCReplies
  EngineEnds <- MCEnds
  ShownReasons = 3
INVARIANTS CallEnvelope ExploreStaysNear PanelIsSound LossIsTold
