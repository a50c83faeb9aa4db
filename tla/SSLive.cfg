CONSTANTS
  a1 = a1
  Torn = Torn  Missing = Missing  Down = Down
  Apply <- OneApply
  Config <- Configs
  Good <- GoodConfigs
  First <- FirstConfig
  Payload <- Payloads
  Bits <- FewBits
  Source <- Sources
SPECIFICATION RulesSpec
INVARIANTS  QueriesUsePrimary AllowlistIsExact
PROPERTIES ApplyEnds
\* The applies are used up in the end.
CHECK_DEADLOCK FALSE
