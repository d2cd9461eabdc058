CONSTANTS
  BufferSize <- MCBufferSize
  Sizes <- MCLengths
SPECIFICATION Spec
INVARIANT MessageIsFormattedText
CHECK_DEADLOCK FALSE
