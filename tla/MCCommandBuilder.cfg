\* The command form: menus, the tool dropdown, guest rows and every button.
CONSTANTS
  g1 = g1
  g2 = g2
  Texts <- MCTexts
  Tools <- MCTools
  Guests <- MCGuests
  GuestSelectOrder <- MCGuestSelectOrder

SPECIFICATION Spec

INVARIANT TypeOK
INVARIANT TokensAsSpecified
INVARIANT BuildFailsOnlyWithoutWords

