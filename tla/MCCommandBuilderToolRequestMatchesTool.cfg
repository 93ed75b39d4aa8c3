CONSTANTS
  g1 = g1
  g2 = g2
  Texts <- MCTexts
  Tools <- MCTools
  Guests <- MCGuests
  GuestSelectOrder <- MCGuestSelectOrder

SPECIFICATION Spec

PROPERTY ToolRequestMatchesTool
