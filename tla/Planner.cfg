CONSTANTS RowOrder <- MCRowOrder
          Queries <- MCQueries
          Schemas <- MCSchemas
          RowCount <- MCRowCount
          ColumnCount <- MCColumnCount
          SubSelects <- MCSubSelects
          Clauses <- MCClauses
SPECIFICATION PricingSpec
INVARIANTS SameMeaning AreasCoverCondition NetworkAsExpected
           PointersTellTables  JoinConditionsApplied
            
PROPERTY UnitesMore
CHECK_DEADLOCK FALSE
