CONSTANTS
  Struct <- MCStruct
  Opts <- MCOpts
  Entity = {"user", "named", "order", "tag"}
  Preds <- MCPreds
  Tables <- MCTables
  Cols <- MCCols
  InsertCols <- MCInsertCols
  Rows <- MCRows
  Upserts <- MCUpserts
  Raws <- MCRaws
  Mdls <- MCMdls
  MaxCalls = 4
  SelectText <- SelectorText
SPECIFICATION StatementSpec
INVARIANTS InsertStable BoundArgs ArgsInOrder WhereUnambiguous SuccessIsReal
CHECK_DEADLOCK FALSE
