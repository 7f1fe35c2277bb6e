\* Integer types of 3 to 6 bits and a digit buffer that holds the longest of them.
CONSTANTS
  Formats <- MCFormats
  Bits <- MCBits
  NTOA_BUFFER_SIZE = 2
  PTR_DIGITS = 2
SPECIFICATION Spec
INVARIANT
  ConversionsExact
