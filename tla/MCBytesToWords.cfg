CONSTANTS
    Byte <- MCByte
    Zero = 0
    NumBytes = 3
    IndexMod = 8
SPECIFICATION FairSpec
PROPERTIES
    FramingRefined
    BytesAreTaken
