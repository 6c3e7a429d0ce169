SPECIFICATION ClientSpec
CONSTANTS
  MaxSends = 2
  MaxWrites = 2
INVARIANT OneClientWrite
