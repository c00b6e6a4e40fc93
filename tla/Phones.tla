------------------------------- MODULE Phones -------------------------------
(***************************************************************************)
(* Which customer a phone number means (app/services/customers.py).  A     *)
(* number is its sequence of digits; we store it in full, with the country *)
(* code.  What somebody typed into a form may carry 00 or a trunk 0 in     *)
(* front, or lack the country code.                                        *)
(***************************************************************************)
EXTENDS SequencesExt

\* _MIN_SUFFIX_DIGITS, _MAX_COUNTRY_CODE_DIGITS
MinSuffixDigits == 9
MaxCountryCodeDigits == 3

\* lstrip("0")
WithoutZeros(digits) ==
  LET first == SelectInSeq(digits, LAMBDA d : d # 0)
  IN  IF first = 0 THEN <<>> ELSE SubSeq(digits, first, Len(digits))

\* normalise_phone
Normalised(typed) == IF IsPrefix(<<0, 0>>, typed) THEN WithoutZeros(typed) ELSE typed

\* book: the stored number of each customer
ByPhone(book, typed) ==
  {c \in DOMAIN book : Normalised(typed) # <<>> /\ book[c] = Normalised(typed)}

\* find_by_phone_suffix: with nothing but a country code in front
BySuffix(book, typed) ==
  LET suffix == WithoutZeros(Normalised(typed))
  IN  {c \in DOMAIN book : /\ Len(suffix) >= MinSuffixDigits
                           /\ IsSuffix(suffix, book[c])
                           /\ Len(book[c]) <= Len(suffix) + MaxCountryCodeDigits}

\* any one of those whose number ends like it
ResolveGuessing(book, typed) ==
  LET found == ByPhone(book, typed) \cup BySuffix(book, typed)
  IN  IF found = {} THEN {} ELSE {CHOOSE c \in found : TRUE}

\* resolve_by_phone: the customer, if there is exactly one
ResolveByPhone(book, typed) ==
  IF ByPhone(book, typed) # {} THEN ByPhone(book, typed)
  ELSE IF Cardinality(BySuffix(book, typed)) = 1 THEN BySuffix(book, typed) ELSE {}

=============================================================================
