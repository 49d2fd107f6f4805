CONSTANTS RowOrder <- MCRowOrder
          Queries <- MCQueries
          Schemas <- MCSchemas
          RowCount <- MCRowCount
          ColumnCount <- MCColumnCount
          SubSelects <- MCSubSelects
          Clauses <- MCClauses
SPECIFICATION PricingSpec
INVARIANT ScansAllTables
CHECK_DEADLOCK FALSE
