SPECIFICATION FairSpec
CONSTANTS
  intro = intro  body = body  s1 = s1  s2 = s2  s3 = s3  smith = smith  jones = jones
  None = None
  Claims <- MCClaims
  Label <- MCLabel
  Plans <- MCPlans
  JudgeAnswers <- MCJudges
  TournamentDrafts = 2
  Redrafts = 2
  MaxPerId = 2
  Tensions = 1
  PlanFaults <- AllPlanFaults
  Configs <- MCConfigs
  Texts <- MCTexts
  SectionTexts <- MCSectionTexts
  Drafts = 2
  Rounds = 1
  Faults <- AllFaults
INVARIANTS WinnerIsBestPlan CallsAreBooked OneTarget CitationsSurvive
PROPERTIES StageThreeStarts
